---- MODULE Spec2Model ----
(***************************************************************************)
(* Model of the iterative tool-calling orchestration loop of V3Agent       *)
(* (agent/agent.go: sendMessageInternal,                                   *)
(* handleToolCallsWithDepthLimitStreaming, executeToolCall,                *)
(* countSearchAttempts) together with the parts of the tool registry and   *)
(* of the provider interface the loop drives.                              *)
(***************************************************************************)
EXTENDS Integers, Sequences, FiniteSets, TLC

(***************************************************************************)
(* Program constants and model bounds                                      *)
(***************************************************************************)
maxDepth == 20

minSearches == 8

\* the execution history keeps the last 1000 executions
maxHistory == 1000

\* most tool calls the provider stub puts into one response
MaxCalls == 2

\* most providers in the list of a composite provider
MaxProviders == 2

\* the most sessions started
MaxSessions == 2

\* the most ExecuteTool calls made on the registry
MaxExecutions == 2

\* the longest response content, in characters, a provider streams
MaxContent == 3

\* the number of calls made on the lazy provider while its goroutines run
MaxRequests == 2

\* components of the path parameter of a file_search call
MaxPath == 2

(***************************************************************************)
(* Message contents.  A content is a record: its text template, the tool   *)
(* name and error text formatted into it (arg), the number formatted into   *)
(* it (n), its length after trimming (len), whether it ends in ':' and     *)
(* whether it holds one of the endpoint keywords of the usefulness test.   *)
(* The empty string is the record with text "" and len 0.                  *)
(***************************************************************************)
Txt(t, l) ==
    [text |-> t, arg |-> <<>>, n |-> 0, len |-> l, colon |-> FALSE, api |-> FALSE]

\* a text that holds an endpoint or API keyword ("endpoint", "/api/", "get ",
\* "post ", "put ", "delete ", "http", "model/")
ApiTxt(t, l) == [Txt(t, l) EXCEPT !.api = TRUE]

EmptyContent == Txt("", 0)

\* contents a provider completion can carry
ProviderContents == {EmptyContent, Txt("answer", 150)}

PlaceholderContent == Txt("I'll use some tools to help answer your question.", 49)

NoOutputContent == Txt("Tool executed successfully with no output.", 42)

ExhaustedContent(count) ==
    [text |-> "After exhaustive search (%d attempts), I could not find ...",
     arg |-> <<>>, n |-> count, len |-> 500, colon |-> FALSE, api |-> FALSE]

ToolErrorContent(name, err) ==
    [text |-> "Error executing %s: %v", arg |-> <<name, err>>, n |-> 0,
     len |-> 60, colon |-> FALSE, api |-> name = "http_get"]

ContinuingContent(count) ==
    [text |-> "Continuing search... (%d/%d attempts made)", arg |-> <<>>,
     n |-> count, len |-> 42, colon |-> FALSE, api |-> FALSE]

TroubleContent(count, found) ==
    [text |-> IF found
              THEN "After %d searches, I found some information but am having trouble presenting it properly. Could you please rephrase your question?"
              ELSE "After %d search attempts, I'm experiencing technical difficulties. Please try rephrasing your question.",
     arg |-> <<>>, n |-> count, len |-> 100, colon |-> FALSE, api |-> FALSE]

ForceSearchContent(count) ==
    [text |-> "SEARCH REQUIREMENT: You have made %d/%d searches. ...",
     arg |-> <<>>, n |-> count, len |-> 700, colon |-> FALSE, api |-> FALSE]

FinalAnswerInstruction == "IMPORTANT: You've reached the maximum search depth. ..."

(***************************************************************************)
(* Tool calls, tools and the tool registry                                 *)
(***************************************************************************)
SearchTool == "kbase"

OtherTool == "http_get"

\* arguments of a tool call: whether the JSON string parses, and the keys of
\* the parsed object
Args(ok, keys) == [json_ok |-> ok, keys |-> keys]

ToolCall(id, name, args) == [id |-> id, name |-> name, args |-> args]

ToolResult(success, error, message, confirm) ==
    [success |-> success, error |-> error, message |-> message,
     requires_confirmation |-> confirm]

NoResult == ToolResult(FALSE, "", EmptyContent, FALSE)

\* the conditions the second registered tool can be in during a turn
ToolFaults == {"none", "notfound", "unavailable", "invalid", "execerr",
               "badjson", "nooutput", "confirm"}

\* SearchEngineTool: always available, no confirmation, no ValidateParameters
\* method, checks its query parameter itself
KbaseTool ==
    [available |-> TRUE, requiresConfirmation |-> FALSE, validates |-> FALSE,
     required |-> {"query"}, execErr |-> FALSE,
     message |-> ApiTxt("search results", 300)]

\* a BaseTool-derived tool (http_get) in the condition named by fault;
\* "confirm": the tool was constructed, as file_write is, with
\* requiresConfirmation = true
BaseToolIn(fault) ==
    [available |-> fault # "unavailable",
     requiresConfirmation |-> fault = "confirm",
     validates |-> TRUE, required |-> {"url"}, execErr |-> fault = "execerr",
     message |-> IF fault = "nooutput" THEN EmptyContent
                 ELSE ApiTxt("HTTP GET request completed", 60)]

\* file_write: a BaseTool-derived tool that requires confirmation
FileWriteTool ==
    [available |-> TRUE, requiresConfirmation |-> TRUE, validates |-> TRUE,
     required |-> {"path", "content"}, execErr |-> FALSE,
     message |-> ApiTxt("Successfully wrote to file", 60)]

\* the registry's name -> tool map
Registry(fault) ==
    IF fault = "notfound"
    THEN [name \in {SearchTool} |-> KbaseTool]
    ELSE [name \in {SearchTool, OtherTool} |->
             IF name = SearchTool THEN KbaseTool ELSE BaseToolIn(fault)]

\* tool.Execute: the result and error the tool returns for the parameters
ToolExecute(name, tool, params) ==
    IF tool.execErr
    THEN [err |-> "request failed", result |-> NoResult]
    ELSE IF name = SearchTool /\ "query" \notin params
    THEN [err |-> "", result |-> ToolResult(FALSE, "query parameter is required",
                                            EmptyContent, FALSE)]
    ELSE [err |-> "", result |-> ToolResult(TRUE, "", tool.message, FALSE)]

\* a registry that takes every tool for available
UnavailableNever(tool) == FALSE

\* !tool.IsAvailable(ctx)
Unavailable(tool) == ~tool.available

\* a registry that asks nobody for confirmation
NeedsConfirmationNever(tool, execution) == FALSE

\* tool.RequiresConfirmation() && !execution.Confirmed
NeedsConfirmation(tool, execution) ==
    tool.requiresConfirmation /\ ~execution.Confirmed

\* a registry that validates no parameters
FailsValidationNever(tool, params) == FALSE

\* the tool has a ValidateParameters method and it returns an error: a
\* required parameter of the schema is missing
FailsValidation(tool, params) ==
    tool.validates /\ ~(tool.required \subseteq params)

\* ToolRegistry.ExecuteTool: err is the error return ("" is nil), ran tells
\* whether the tool's Execute was called
ExecuteTool(reg, execution) ==
    IF execution.ToolName \notin DOMAIN reg
    THEN [err |-> "tool not found", result |-> NoResult, ran |-> FALSE]
    ELSE LET tool == reg[execution.ToolName] IN
         IF Unavailable(tool)
         THEN [err |-> "", ran |-> FALSE,
               result |-> ToolResult(FALSE, "tool is not available",
                                     Txt("Tool is currently unavailable", 40), FALSE)]
         ELSE IF NeedsConfirmation(tool, execution)
         THEN [err |-> "", ran |-> FALSE,
               result |-> ToolResult(FALSE, "confirmation required",
                                     Txt("Tool requires user confirmation before execution", 60), TRUE)]
         ELSE IF FailsValidation(tool, execution.Parameters)
         THEN [err |-> "", ran |-> FALSE,
               result |-> ToolResult(FALSE, "missing required parameter",
                                     Txt("Parameter validation failed", 40), FALSE)]
         ELSE LET r == ToolExecute(execution.ToolName, tool, execution.Parameters) IN
              IF r.err # ""
              THEN [err |-> "", ran |-> TRUE,
                    result |-> ToolResult(FALSE, r.err,
                                          Txt("Tool execution failed", 40), FALSE)]
              ELSE [err |-> "", ran |-> TRUE, result |-> r.result]

\* V3Agent.executeToolCall: the string and the error it returns
executeToolCall(reg, toolCall) ==
    IF ~toolCall.args.json_ok
    THEN [content |-> EmptyContent, err |-> "failed to parse arguments", ran |-> FALSE]
    ELSE LET r == ExecuteTool(reg, [ToolName |-> toolCall.name,
                                    Parameters |-> toolCall.args.keys,
                                    Confirmed |-> TRUE]) IN
         IF r.err # ""
         THEN [content |-> EmptyContent, err |-> r.err, ran |-> r.ran]
         ELSE IF ~r.result.success
         THEN [content |-> EmptyContent, err |-> r.result.error, ran |-> r.ran]
         \* (no registered tool is named file_read: its branch never applies)
         ELSE [content |-> r.result.message, err |-> "", ran |-> r.ran]

(***************************************************************************)
(* Messages                                                                *)
(***************************************************************************)
Message(role, content, calls, id) ==
    [role |-> role, content |-> content, tool_calls |-> calls, tool_call_id |-> id]

\* the empty tool_call_id of the messages that answer no tool call
NoId == <<>>

\* a count that does not look at the function name
CountAnyName(calls) == Len(calls)

RECURSIVE CountKbase(_)
\* the inner loop of countSearchAttempts over one message's tool calls
CountKbase(calls) ==
    IF calls = <<>> THEN 0
    ELSE (IF Head(calls).name = SearchTool THEN 1 ELSE 0) + CountKbase(Tail(calls))

RECURSIVE countSearchAttempts(_)
countSearchAttempts(msgs) ==
    IF msgs = <<>> THEN 0
    ELSE (IF Head(msgs).role = "assistant" THEN CountKbase(Head(msgs).tool_calls) ELSE 0)
         + countSearchAttempts(Tail(msgs))

(***************************************************************************)
(* The provider as the loop sees it: a stub that answers a completion with *)
(* an error, with a final answer, or with the next tool-call response of   *)
(* its script (the last step repeats once the script is used up).          *)
(***************************************************************************)
Response(content, calls) == [content |-> content, tool_calls |-> calls]

RECURSIVE SeqsUpTo(_, _)
\* the non-empty sequences over S of length at most n
SeqsUpTo(S, n) ==
    IF n = 0 THEN {}
    ELSE {<<x>> : x \in S} \cup
         {<<x>> \o t : x \in S, t \in SeqsUpTo(S, n - 1)}

\* a scripted step: the names of the tools the response calls, in order
ScriptSteps == SeqsUpTo({SearchTool, OtherTool}, MaxCalls)

\* the scenarios of the stub: a step the stub repeats, alone or after a
\* first response that calls one tool
Scripts ==
    {<<s>> : s \in ScriptSteps} \cup
    {<<<<n>>, s>> : n \in {SearchTool, OtherTool}, s \in ScriptSteps}

\* the arguments the stub gives to a call of the named tool
ArgsFor(name, flt) ==
    IF name = SearchTool THEN Args(TRUE, {"query"})
    ELSE IF flt = "badjson" THEN Args(FALSE, {})
    ELSE IF flt = "invalid" THEN Args(TRUE, {})
    ELSE Args(TRUE, {"url"})

\* the response of a scripted step; the provider numbers its calls afresh
StepResponse(step, content, firstId, flt) ==
    Response(content,
             [j \in 1..Len(step) |->
                 ToolCall(<<"call", firstId + j>>, step[j], ArgsFor(step[j], flt))])

\* the synthesized retry response of the failure branch
RetryResponse(count, d) ==
    Response(ContinuingContent(count),
             <<ToolCall(<<"retry_search", d>>, SearchTool, Args(TRUE, {"query"}))>>)

(***************************************************************************)
(* State                                                                   *)
(***************************************************************************)
VARIABLES
    pc,           \* where the turn stands: idle, await0, enter, exec, prepare, await, done
    depth,        \* the depth argument of the running invocation
    initialResp,  \* the response the running invocation handles
    messages,     \* the accumulated message list
    idx,          \* index of the tool call the for loop is at
    searchCount,  \* the local searchCount
    finalReq,     \* the request of the pending completion
    resp,         \* the response sendMessageInternal ends with
    retErr,       \* the error the loop returned ("" is nil)
    cancelled,    \* a.ctx has been cancelled
    script,       \* the provider stub's script
    callContent,  \* the content the stub sends along with tool calls
    stepIndex,    \* its next step
    nextId,       \* number of tool-call ids the provider has handed out
    fault,        \* condition of the second tool
    invocations,  \* history: invocations of the loop in this turn
    executed,     \* history: the executeToolCall calls, in order
    produced      \* history: tool calls produced in this turn

loopVars == <<pc, depth, initialResp, messages, idx, searchCount, finalReq, resp,
              retErr, cancelled, script, callContent, stepIndex, nextId, fault,
              invocations, executed, produced>>

\* FallbackProvider and one call of its Complete
VARIABLES
    fbProviders,  \* f.providers: what each provider answers in this call
    fbI,          \* the provider the for loop is at
    fbLastError,  \* lastError
    fbInvoked,    \* history: the providers whose Complete was called, in order
    fbRet         \* what Complete returned

fallbackVars == <<fbProviders, fbI, fbLastError, fbInvoked, fbRet>>

\* LazyProvider, and the agent that is built on it
VARIABLES
    lzProviders,  \* lp.providers: what each provider's Complete returns
    lzActive,     \* lp.activeProvider as an index of lp.providers, 0 for nil
    lzBgDone,     \* initializeProvidersInBackground has finished
    lzBgFound,    \* history: the first provider its probes found available, 0 for none
    lzLast,       \* history: the last call the lazy provider answered
    agState,      \* the agent: not built ("new"), built ("ready") or refused ("failed")
    agSession,    \* a.currentSession is set
    agRet         \* what the agent returned last to its caller

agentVars == <<lzProviders, lzActive, lzBgDone, lzBgFound, lzLast, agState,
               agSession, agRet>>

\* the WebSocket handlers, the sessions of the memory manager and the
\* messages in process
VARIABLES
    wsSessions,   \* h.sessions of each connection's handler: the ids stored
    ssCount,      \* the number of sessions created so far (ids 1..ssCount)
    agCurrent,    \* a.currentSession (0: nil)
    mmCurrent,    \* mm.currentSession (0: nil)
    ssLog,        \* Messages of each session: who appended what
    ssTasks       \* the processMessageWithStreaming goroutines started

sessionVars == <<wsSessions, ssCount, agCurrent, mmCurrent, ssLog, ssTasks>>

\* a tool registry of its own
VARIABLES
    rgTools,      \* tr.tools: name -> tool
    rgHistory,    \* tr.history, as recordExecution appends to it
    rgLast,       \* the last ExecuteTool call: its execution and what it returned
    rgCount,      \* the number of ExecuteTool calls made
    rgRegLast     \* the last RegisterTool call: the tool given and the error returned

registryVars == <<rgTools, rgHistory, rgLast, rgCount, rgRegLast>>

\* the execution history of a registry with concurrent callers
VARIABLES
    hsMaxHistory, \* tr.maxHistory
    hsHistory,    \* tr.history
    hsCalls,      \* the ExecuteTool calls made so far, and where each stands
    hsAll         \* every entry recordExecution has appended, in that order

historyVars == <<hsMaxHistory, hsHistory, hsCalls, hsAll>>

\* a provider's Complete that got an HTTP response other than 200
VARIABLES
    htResp,       \* the provider, resp.StatusCode and the body read from it
    htErr         \* the error Complete returns for it

httpVars == <<htResp, htErr>>

\* one call of a provider's Stream and the goroutine it starts
VARIABLES
    stReq,        \* who is called, and what the completion gives
    stPc,         \* where the call and its goroutine stand
    stWords,      \* words := strings.Fields(content)
    stPos,        \* the index of the word the loop is at
    stCh,         \* the chunks sent on ch, in that order
    stClosed,     \* close(ch) has run
    stCtxDone,    \* ctx is cancelled
    stOk          \* the completion gave a response

streamVars == <<stReq, stPc, stWords, stPos, stCh, stClosed, stCtxDone, stOk>>

\* LazyProvider with its lock: the background goroutine and concurrent callers
VARIABLES
    lpProviders,  \* len(lp.providers); -1 before NewLazyProvider
    lpMu,         \* lp.mu: the goroutine holding the write lock, those holding read locks
    lpActive,     \* lp.activeProvider as an index of lp.providers, 0 for nil
    lpBg,         \* initializeProvidersInBackground: its position, results, backgroundDone
    lpCallers,    \* the calling goroutines: the call each is in and where it stands
    lpCalls       \* number of calls begun

concurrentVars == <<lpProviders, lpMu, lpActive, lpBg, lpCallers, lpCalls>>

\* FileSearchTool.Execute
VARIABLES
    fsParams,     \* the params map of the call
    fsResult      \* what Execute returned

searchVars == <<fsParams, fsResult>>

vars == <<loopVars, fallbackVars, agentVars, sessionVars, registryVars, historyVars,
          httpVars, streamVars, concurrentVars, searchVars>>

NoResponse == Response(EmptyContent, <<>>)

NoRequest == [messages |-> <<>>, tools |-> FALSE, tool_choice |-> ""]

\* a nil error
NoError == [provider |-> <<>>, type |-> "", message |-> "", err |-> <<>>, typed |-> FALSE]

\* Complete has not returned
NoReturn == [returned |-> FALSE, model |-> <<>>, err |-> NoError]

\* the agent's turn while another component is looked at: not started
LoopParked ==
    /\ pc = "idle"
    /\ depth = 0
    /\ initialResp = NoResponse
    /\ messages = <<>>
    /\ idx = 1
    /\ searchCount = 0
    /\ finalReq = NoRequest
    /\ resp = NoResponse
    /\ retErr = ""
    /\ cancelled = FALSE
    /\ script = <<<<SearchTool>>>>
    /\ callContent = EmptyContent
    /\ fault = "none"
    /\ stepIndex = 1
    /\ nextId = 0
    /\ invocations = 0
    /\ executed = <<>>
    /\ produced = {}

\* a fallback provider nobody calls
FallbackParked ==
    /\ fbProviders = <<>>
    /\ fbI = 1
    /\ fbLastError = NoError
    /\ fbInvoked = <<>>
    /\ fbRet = NoReturn

\* no call answered yet by the lazy provider
NoServe == [op |-> "", by |-> 0, err |-> NoError]

\* nothing returned yet by the agent
NoAgentReturn == [op |-> "", err |-> NoError, content |-> EmptyContent]

\* an agent nobody builds
AgentParked ==
    /\ lzProviders = <<>>
    /\ lzActive = 0
    /\ lzBgDone = FALSE
    /\ lzBgFound = 0
    /\ lzLast = NoServe
    /\ agState = "new"
    /\ agSession = FALSE
    /\ agRet = NoAgentReturn

\* the connections the server has open
Conns == {"conn1", "conn2"}

\* a server nobody has connected to
SessionParked ==
    /\ wsSessions = [c \in Conns |-> {}]
    /\ ssCount = 0
    /\ agCurrent = 0
    /\ mmCurrent = 0
    /\ ssLog = <<>>
    /\ ssTasks = [c \in Conns |-> [for |-> 0, pc |-> "none", ctxFrom |-> 0, err |-> ""]]

\* no ExecuteTool call made yet
NoExecution ==
    [execution |-> [ToolName |-> "", Parameters |-> {}, Confirmed |-> FALSE],
     out |-> [err |-> "", result |-> NoResult, ran |-> FALSE]]

\* no RegisterTool call made yet
NoRegistration == [nil |-> TRUE, name |-> "", tool |-> KbaseTool, err |-> ""]

\* a registry nothing is registered in
RegistryParked ==
    /\ rgTools = <<>>
    /\ rgHistory = <<>>
    /\ rgLast = NoExecution
    /\ rgCount = 0
    /\ rgRegLast = NoRegistration

\* a registry nobody calls
HistoryParked ==
    /\ hsMaxHistory = maxHistory
    /\ hsHistory = <<>>
    /\ hsCalls = <<>>
    /\ hsAll = <<>>

\* no HTTP response yet
NoHTTPResponse == [provider |-> "", status |-> 0, body |-> [json |-> FALSE, message |-> ""]]

\* no error returned yet
NoHTTPError == [Provider |-> "", Type |-> "", Message |-> [status |-> 0, text |-> ""]]

\* a provider nobody calls
HTTPParked ==
    /\ htResp = NoHTTPResponse
    /\ htErr = NoHTTPError

\* no Stream call
NoStreamReq == [via |-> "", provider |-> "", content |-> <<>>, fail |-> FALSE,
                available |-> FALSE]

\* a provider nobody streams from
StreamParked ==
    /\ stReq = NoStreamReq
    /\ stPc = ""
    /\ stWords = <<>>
    /\ stPos = 0
    /\ stCh = <<>>
    /\ stClosed = FALSE
    /\ stCtxDone = FALSE
    /\ stOk = FALSE

\* the goroutines that call the lazy provider
LazyCallers == {"t1", "t2"}

\* a goroutine that is in no call
IdleCaller == [pc |-> "idle", op |-> "", i |-> 0, tried |-> {}, ret |-> ""]

\* the background goroutine before it is started
NoBackground ==
    [pc |-> "none", results |-> <<>>, isInitializing |-> FALSE, done |-> FALSE,
     spawned |-> 0, closes |-> 0]

\* the unlocked sync.RWMutex
Unlocked == [writer |-> "", readers |-> {}]

\* no LazyProvider built
ConcurrentParked ==
    /\ lpProviders = -1
    /\ lpMu = Unlocked
    /\ lpActive = 0
    /\ lpBg = NoBackground
    /\ lpCallers = [t \in LazyCallers |-> IdleCaller]
    /\ lpCalls = 0

\* no file_search call
NoSearchParams == [pattern |-> FALSE, hasPath |-> FALSE, path |-> [abs |-> FALSE, comps |-> <<>>]]

NoSearchResult == [returned |-> FALSE, success |-> FALSE, error |-> "", err |-> "",
                   searched |-> FALSE, base |-> <<>>]

SearchParked ==
    /\ fsParams = NoSearchParams
    /\ fsResult = NoSearchResult

\* every component but c is out of use
ParkedBut(c) ==
    /\ IF c = "loop" THEN TRUE ELSE LoopParked
    /\ IF c = "fallback" THEN TRUE ELSE FallbackParked
    /\ IF c = "agent" THEN TRUE ELSE AgentParked
    /\ IF c = "session" THEN TRUE ELSE SessionParked
    /\ IF c = "registry" THEN TRUE ELSE RegistryParked
    /\ IF c = "history" THEN TRUE ELSE HistoryParked
    /\ IF c = "http" THEN TRUE ELSE HTTPParked
    /\ IF c = "stream" THEN TRUE ELSE StreamParked
    /\ IF c = "concurrent" THEN TRUE ELSE ConcurrentParked
    /\ IF c = "search" THEN TRUE ELSE SearchParked

\* a step of component c leaves the other components alone
UnchangedBut(c) ==
    /\ IF c = "loop" THEN TRUE ELSE UNCHANGED loopVars
    /\ IF c = "fallback" THEN TRUE ELSE UNCHANGED fallbackVars
    /\ IF c = "agent" THEN TRUE ELSE UNCHANGED agentVars
    /\ IF c = "session" THEN TRUE ELSE UNCHANGED sessionVars
    /\ IF c = "registry" THEN TRUE ELSE UNCHANGED registryVars
    /\ IF c = "history" THEN TRUE ELSE UNCHANGED historyVars
    /\ IF c = "http" THEN TRUE ELSE UNCHANGED httpVars
    /\ IF c = "stream" THEN TRUE ELSE UNCHANGED streamVars
    /\ IF c = "concurrent" THEN TRUE ELSE UNCHANGED concurrentVars
    /\ IF c = "search" THEN TRUE ELSE UNCHANGED searchVars

Init ==
    /\ pc = "idle"
    /\ depth = 0
    /\ initialResp = NoResponse
    /\ messages = <<>>
    /\ idx = 1
    /\ searchCount = 0
    /\ finalReq = NoRequest
    /\ resp = NoResponse
    /\ retErr = ""
    /\ cancelled = FALSE
    /\ script \in Scripts
    /\ callContent \in ProviderContents
    /\ fault \in ToolFaults
    /\ stepIndex = 1
    /\ nextId = 0
    /\ invocations = 0
    /\ executed = <<>>
    /\ produced = {}
    /\ ParkedBut("loop")

(***************************************************************************)
(* Operations                                                              *)
(***************************************************************************)
SystemMessage == Message("system", Txt("system prompt", 2000), <<>>, NoId)

UserMessage == Message("user", Txt("user question", 40), <<>>, NoId)

\* the errors a completion can fail with
CompletionErrors == {"network_error", "context deadline exceeded"}

DifficultiesContent(err) ==
    [text |-> "I'm experiencing technical difficulties. Error: %v ...",
     arg |-> <<err>>, n |-> 0, len |-> 120, colon |-> FALSE, api |-> FALSE]

\* the tool-call response the stub gives next, and the stub's state after it
ScriptedResponse == StepResponse(script[stepIndex], callContent, nextId, fault)

AdvanceScript ==
    /\ stepIndex' = IF stepIndex < Len(script) THEN stepIndex + 1 ELSE stepIndex
    /\ nextId' = nextId + Len(script[stepIndex])
    /\ produced' = produced \cup
                   {ScriptedResponse.tool_calls[j] : j \in 1..Len(script[stepIndex])}

\* sendMessageInternal up to its call of Complete
SendMessage ==
    /\ pc = "idle"
    /\ messages' = <<SystemMessage, UserMessage>>
    /\ finalReq' = [messages |-> messages', tools |-> TRUE, tool_choice |-> "auto"]
    /\ pc' = "await0"
    /\ UNCHANGED <<depth, initialResp, idx, searchCount, resp, retErr, cancelled,
                   script, callContent, stepIndex, nextId, fault, invocations, executed, produced>>
    /\ UnchangedBut("loop")

\* the first completion returns: sendMessageInternal answers or enters the
\* loop at depth 0
FirstCompletion ==
    /\ pc = "await0"
    /\ \/ /\ \E err \in CompletionErrors :
               resp' = Response(DifficultiesContent(err), <<>>)
          /\ pc' = "done"
          /\ UNCHANGED <<depth, initialResp, stepIndex, nextId, produced>>
       \/ /\ ~cancelled
          /\ \E c \in ProviderContents : resp' = Response(c, <<>>)
          /\ pc' = "done"
          /\ UNCHANGED <<depth, initialResp, stepIndex, nextId, produced>>
       \/ /\ ~cancelled
          /\ initialResp' = ScriptedResponse
          /\ AdvanceScript
          /\ depth' = 0
          /\ pc' = "enter"
          /\ UNCHANGED resp
    /\ UNCHANGED <<messages, idx, searchCount, finalReq, retErr, cancelled,
                   script, callContent, fault, invocations, executed>>
    /\ UnchangedBut("loop")

\* content == "" || HasSuffix(trimmed, ":") || len(trimmed) < 100
Inconclusive(content) ==
    content.text = "" \/ content.colon \/ content.len < 100

\* a for loop that stops one tool call early
MoreCallsButLast(i, n) == i < n - 1

\* the for loop goes on after i of n tool calls
MoreCalls(i, n) == i < n

\* a for loop that walks the tool calls backwards
CallAtFromEnd(calls, i) == calls[Len(calls) + 1 - i]

\* the tool call the for loop handles in its i-th iteration
CallAt(calls, i) == calls[i]

\* a tool message content that drops the error of a failed call
ToolContentOfIgnoringErr(name, r) ==
    IF r.content.text = "" THEN NoOutputContent ELSE r.content

\* the content of the tool message for what executeToolCall returned
ToolContentOf(name, r) ==
    IF r.err # "" THEN ToolErrorContent(name, r.err)
    ELSE IF r.content.text = "" THEN NoOutputContent
    ELSE r.content

\* a tool message that leaves ToolCallID unset
ToolMessageWithoutId(content, toolCall) == Message("tool", content, <<>>, NoId)

\* the tool message that answers a tool call
ToolMessage(content, toolCall) == Message("tool", content, <<>>, toolCall.id)

\* an assistant message content without the placeholder
AssistantContentAsIs(content) == content

\* the content of the assistant message that carries the tool calls
AssistantContent(content) ==
    IF content.text = "" THEN PlaceholderContent ELSE content

\* entry of handleToolCallsWithDepthLimitStreaming: the depth check and the
\* assistant message carrying the tool calls
Enter ==
    /\ pc = "enter"
    /\ invocations' = invocations + 1
    /\ searchCount' = countSearchAttempts(messages)
    /\ IF depth >= maxDepth
       THEN /\ resp' = IF Inconclusive(initialResp.content)
                       THEN [initialResp EXCEPT !.content = ExhaustedContent(searchCount')]
                       ELSE initialResp
            /\ retErr' = ""
            /\ pc' = "done"
            /\ UNCHANGED <<messages, idx>>
       ELSE /\ messages' = Append(messages,
                   Message("assistant", AssistantContent(initialResp.content),
                           initialResp.tool_calls, NoId))
            /\ idx' = 1
            /\ pc' = IF MoreCalls(0, Len(initialResp.tool_calls)) THEN "exec" ELSE "prepare"
            /\ UNCHANGED <<resp, retErr>>
    /\ UNCHANGED <<depth, initialResp, finalReq, cancelled, script, callContent, stepIndex,
                   nextId, fault, executed, produced>>
    /\ UnchangedBut("loop")

\* one iteration of the for loop over initialResp.ToolCalls
ExecTool ==
    /\ pc = "exec"
    /\ LET toolCall == CallAt(initialResp.tool_calls, idx)
           r == executeToolCall(Registry(fault), toolCall)
           toolContent == ToolContentOf(toolCall.name, r)
       IN /\ messages' = Append(messages, ToolMessage(toolContent, toolCall))
          /\ executed' = Append(executed,
                 [call |-> toolCall, depth |-> depth, pos |-> idx, ran |-> r.ran,
                  err |-> r.err])
    /\ idx' = idx + 1
    /\ pc' = IF MoreCalls(idx, Len(initialResp.tool_calls)) THEN "exec" ELSE "prepare"
    /\ UNCHANGED <<depth, initialResp, searchCount, finalReq, resp, retErr,
                   cancelled, script, callContent, stepIndex, nextId, fault, invocations, produced>>
    /\ UnchangedBut("loop")

RECURSIVE RecentUseful(_, _, _)
\* the scan of the last messages for useful tool results, from index i down
\* to index low: the number of useful results and the length of their
\* concatenation
RecentUseful(msgs, i, low) ==
    IF i < 1 \/ i < low THEN [results |-> 0, length |-> 0]
    ELSE LET rest == RecentUseful(msgs, i - 1, low)
             m == msgs[i]
         IN IF m.role = "tool" /\ m.content.len > 200 /\ m.content.api
            THEN [results |-> rest.results + 1,
                  length |-> rest.length + m.content.len + 1]
            ELSE rest

\* finalReq and the forcing logic that precede the completion
PrepareRequest ==
    /\ pc = "prepare"
    /\ searchCount' = countSearchAttempts(messages)
    /\ LET last == messages[Len(messages)]
           recent == RecentUseful(messages, Len(messages), Len(messages) - 3)
       IN IF depth >= maxDepth - 1
          THEN /\ messages' =
                     IF Len(messages) > 0 /\ last.role = "assistant"
                     THEN [messages EXCEPT ![Len(messages)].content.text =
                                               @ \o FinalAnswerInstruction]
                     ELSE messages
               /\ finalReq' = [messages |-> messages', tools |-> FALSE, tool_choice |-> ""]
          ELSE IF searchCount' < minSearches
          THEN /\ messages' =
                     IF (recent.results = 0 \/ recent.length < 500)
                        /\ Len(messages) > 0 /\ last.role = "tool"
                     THEN Append(messages, Message("system",
                                 ForceSearchContent(searchCount'), <<>>, NoId))
                     ELSE messages
               /\ finalReq' = [messages |-> messages', tools |-> TRUE, tool_choice |-> "auto"]
          ELSE /\ messages' = messages
               /\ finalReq' = [messages |-> messages', tools |-> TRUE, tool_choice |-> "auto"]
    /\ pc' = "await"
    /\ UNCHANGED <<depth, initialResp, idx, resp, retErr, cancelled, script, callContent,
                   stepIndex, nextId, fault, invocations, executed, produced>>
    /\ UnchangedBut("loop")

\* some tool message of the list has non-empty content
HasToolResults(msgs) ==
    \E k \in 1..Len(msgs) : msgs[k].role = "tool" /\ msgs[k].content.text # ""

\* a recursion guard that forgets the depth budget
MayRecurseAnyDepth(r, d) == Len(r.tool_calls) > 0

\* the recursion guard of the loop
MayRecurse(r, d) == Len(r.tool_calls) > 0 /\ d < maxDepth - 1

\* a recursive call that skips a depth
NextDepthSkipping(d) == d + 2

\* the depth handed to the recursive call
NextDepth(d) == d + 1

\* the completion returns: the failure branch, the recursion or the return
Completion ==
    /\ pc = "await"
    /\ \/ /\ \E err \in CompletionErrors : TRUE
          /\ searchCount' = countSearchAttempts(messages)
          /\ IF searchCount' < minSearches /\ depth < maxDepth - 2
             THEN /\ resp' = RetryResponse(searchCount', depth)
                  /\ produced' = produced \cup {resp'.tool_calls[1]}
             ELSE /\ resp' = Response(TroubleContent(searchCount', HasToolResults(messages)), <<>>)
                  /\ produced' = produced
          /\ retErr' = ""
          /\ pc' = "done"
          /\ UNCHANGED <<depth, initialResp, stepIndex, nextId>>
       \/ /\ ~cancelled
          /\ \E c \in ProviderContents : resp' = Response(c, <<>>)
          /\ retErr' = ""
          /\ pc' = "done"
          /\ UNCHANGED <<depth, initialResp, searchCount, stepIndex, nextId, produced>>
       \/ /\ ~cancelled
          /\ AdvanceScript
          /\ IF MayRecurse(ScriptedResponse, depth)
             THEN /\ initialResp' = ScriptedResponse
                  /\ depth' = NextDepth(depth)
                  /\ pc' = "enter"
                  /\ UNCHANGED <<resp, retErr>>
             ELSE /\ resp' = ScriptedResponse
                  /\ retErr' = ""
                  /\ pc' = "done"
                  /\ UNCHANGED <<depth, initialResp>>
          /\ UNCHANGED searchCount
    /\ UNCHANGED <<messages, idx, finalReq, cancelled, script, callContent, fault,
                   invocations, executed>>
    /\ UnchangedBut("loop")

\* Shutdown cancels a.ctx while the turn is running
Cancel ==
    /\ pc \notin {"idle", "done"}
    /\ ~cancelled
    /\ cancelled' = TRUE
    /\ UNCHANGED <<pc, depth, initialResp, messages, idx, searchCount, finalReq,
                   resp, retErr, script, callContent, stepIndex, nextId, fault, invocations,
                   executed, produced>>
    /\ UnchangedBut("loop")

Next ==
    \/ SendMessage
    \/ FirstCompletion
    \/ Enter
    \/ ExecTool
    \/ PrepareRequest
    \/ Completion
    \/ Cancel

Spec == Init /\ [][Next]_vars

(***************************************************************************)
(* Properties                                                              *)
(***************************************************************************)

\* the steps a turn in this state can still take, at most: the invocations
\* left below maxDepth, each with its tool calls, its request and its
\* completion, and the one cancellation
StepsLeft ==
    LET perDepth == MaxCalls + 3
        n == Len(initialResp.tool_calls)
        below == (maxDepth - depth) * perDepth
        rank == CASE pc = "idle" -> below + perDepth + 2
                  [] pc = "await0" -> below + perDepth + 1
                  [] pc = "enter" -> below + n + 3
                  [] pc = "exec" -> below + (n - idx) + 3
                  [] pc = "prepare" -> below + 2
                  [] pc = "await" -> below + 1
                  [] OTHER -> 0
    IN 2 * rank + (IF cancelled THEN 0 ELSE 1)

\* a step of the turn itself
Step == SendMessage \/ FirstCompletion \/ Enter \/ ExecTool \/ PrepareRequest \/ Completion

\* C1: whatever the provider answers, also when it requests a tool call on
\* every completion, the turn cannot go on forever and ends after at most
\* maxDepth invocations of the loop: until it is done a step of the turn is possible,
\* and every step takes the natural number StepsLeft down.
C1_LoopReturnsWithinMaxDepth ==
    /\ [](invocations <= maxDepth /\ StepsLeft >= 0)
    /\ [](pc # "done" => ENABLED Step)
    /\ [][StepsLeft' < StepsLeft]_vars

\* the loop has returned to a provider that was still requesting tool calls,
\* after maxDepth invocations
C1_Witness ==
    pc = "done" /\ invocations = maxDepth /\ Len(resp.tool_calls) > 0

\* the loop was entered for the user message and has returned
LoopReturned == pc = "done" /\ invocations > 0

\* C2: whenever the loop returns, the final message has non-empty content.
C2_FinalContentNonEmpty ==
    LoopReturned => resp.content.text # ""

\* the ids of the tool calls handed to executeToolCall, in order
ExecutedIds == [k \in 1..Len(executed) |-> executed[k].call.id]

\* number of times a tool call id was handed to executeToolCall
TimesExecuted(id) == Cardinality({k \in 1..Len(executed) : executed[k].call.id = id})

\* the tool calls of the assistant messages of a list
TakenUp(msgs) ==
    UNION {{msgs[k].tool_calls[j] : j \in DOMAIN msgs[k].tool_calls} :
              k \in {a \in 1..Len(msgs) : msgs[a].role = "assistant"}}

\* the tool calls handed to executeToolCall
ExecutedCalls == {executed[k].call : k \in 1..Len(executed)}

\* the tool calls of a response
CallsOf(r) == {r.tool_calls[j] : j \in DOMAIN r.tool_calls}

\* C3 as stated: no tool call id is executed twice, and when the loop
\* returns every tool call produced in the turn has been executed once.
C3_EveryProducedCallExecutedOnce ==
    /\ \A c \in produced : TimesExecuted(c.id) <= 1
    /\ LoopReturned => \A c \in produced : TimesExecuted(c.id) = 1

\* C3 as amended: no tool call id is executed twice and only tool calls of
\* the assistant messages are executed; outside the for loop every tool call
\* of an assistant message has been executed exactly once; when the loop
\* returns, the tool calls left unexecuted are exactly those of the response
\* it returns.
C3_TakenUpCallsExecutedOnce ==
    /\ Cardinality({executed[k].call.id : k \in 1..Len(executed)}) = Len(executed)
    /\ ExecutedCalls \subseteq TakenUp(messages)
    /\ pc # "exec" => ExecutedCalls = TakenUp(messages)
    /\ LoopReturned => produced \ ExecutedCalls = CallsOf(resp)

\* the loop ran several rounds, executed their tool calls and returned a
\* response that still carries tool calls
C3_Witness ==
    LoopReturned /\ invocations >= 2 /\ Len(executed) >= 3 /\ resp.tool_calls # <<>>

\* C4: the first invocation runs at depth 0, each further invocation at the
\* depth of the one before plus 1, and depth never exceeds maxDepth.
C4_DepthDiscipline ==
    /\ depth <= maxDepth
    /\ pc = "enter" => depth = invocations
    /\ pc \in {"exec", "prepare", "await"} => depth = invocations - 1

\* the deepest invocation the recursion reaches is awaiting its completion
C4_Witness ==
    pc = "await" /\ depth = maxDepth - 1 /\ invocations = maxDepth

\* number of tool calls named kbase carried by the assistant messages of a list
NumSearchCalls(msgs) ==
    Cardinality(UNION {{<<k, j>> : j \in {x \in DOMAIN msgs[k].tool_calls :
                                              msgs[k].tool_calls[x].name = "kbase"}} :
                          k \in {a \in 1..Len(msgs) : msgs[a].role = "assistant"}})

\* C5: searchCount never decreases during a turn, and each time it is
\* recomputed it is the number of kbase tool calls of the assistant messages
\* of the list at that point: during the for loop and until the request is
\* prepared, of the list the invocation was entered with; from then on, of
\* the whole list.
C5_SearchCountMonotoneAndExact ==
    /\ [][searchCount' >= searchCount]_vars
    /\ [](pc \in {"exec", "prepare"} =>
            searchCount = NumSearchCalls(SubSeq(messages, 1, Len(messages) - idx)))
    /\ [](pc \notin {"exec", "prepare"} => searchCount = NumSearchCalls(messages))

\* several searches were counted while the list also holds calls of another tool
C5_Witness ==
    /\ pc = "await"
    /\ searchCount >= 2
    /\ \E c \in TakenUp(messages) : c.name # "kbase"

\* the ids of the tool messages of a list, in order
RECURSIVE ToolMessageIds(_)
ToolMessageIds(msgs) ==
    IF msgs = <<>> THEN <<>>
    ELSE (IF Head(msgs).role = "tool" THEN <<Head(msgs).tool_call_id>> ELSE <<>>)
         \o ToolMessageIds(Tail(msgs))

\* the ids of the tool calls of the assistant messages of a list, in order
RECURSIVE RequestedIds(_)
RequestedIds(msgs) ==
    IF msgs = <<>> THEN <<>>
    ELSE (IF Head(msgs).role = "assistant"
          THEN [j \in DOMAIN Head(msgs).tool_calls |-> Head(msgs).tool_calls[j].id]
          ELSE <<>>)
         \o RequestedIds(Tail(msgs))

\* C6: tool calls are executed one by one in the order the provider returned
\* them, and the tool messages are appended in that order: the executed ids
\* and the ids of the tool messages are the same sequence, a prefix of the
\* requested ids during the for loop and all of them outside it.
C6_ExecutionAndMessagesInProviderOrder ==
    LET requested == RequestedIds(messages) IN
    /\ ExecutedIds = ToolMessageIds(messages)
    /\ Len(executed) <= Len(requested)
    /\ ExecutedIds = SubSeq(requested, 1, Len(executed))
    /\ pc # "exec" => Len(executed) = Len(requested)
    /\ pc = "exec" => Len(requested) - Len(executed)
                        = Len(initialResp.tool_calls) - idx + 1

\* a response with two different tool calls has been executed
C6_Witness ==
    /\ pc = "prepare"
    /\ Len(initialResp.tool_calls) >= 2
    /\ initialResp.tool_calls[1].name # initialResp.tool_calls[2].name

\* C7: in a message list sent to the provider, every tool message carries
\* the id of a tool call of an earlier assistant message, and every tool call
\* of an assistant message has exactly one tool message: no two tool messages
\* carry the same id, and the ids they carry are those of the tool calls.
C7_ToolMessagesMatchToolCalls ==
    pc \in {"await0", "await"} =>
        LET msgs == finalReq.messages IN
        /\ \A k \in 1..Len(msgs) :
              msgs[k].role = "tool" =>
                  \E a \in 1..(k - 1) :
                      /\ msgs[a].role = "assistant"
                      /\ \E j \in DOMAIN msgs[a].tool_calls :
                            msgs[a].tool_calls[j].id = msgs[k].tool_call_id
        /\ LET answered == ToolMessageIds(msgs) IN
           /\ Cardinality({answered[k] : k \in DOMAIN answered}) = Len(answered)
           /\ {c.id : c \in TakenUp(msgs)} = {answered[k] : k \in DOMAIN answered}

\* a list with the tool calls and tool messages of two rounds is sent
C7_Witness ==
    /\ pc = "await"
    /\ invocations = 2
    /\ Len(ToolMessageIds(finalReq.messages)) >= 3

\* C8: no assistant message with tool calls in the list has empty content.
C8_AssistantWithCallsHasContent ==
    \A k \in 1..Len(messages) :
        (messages[k].role = "assistant" /\ messages[k].tool_calls # <<>>)
            => messages[k].content.text # ""

\* the provider sent tool calls with empty content and the placeholder stands
\* in the assistant message
C8_Witness ==
    /\ initialResp.content.text = ""
    /\ \E k \in 1..Len(messages) :
          /\ messages[k].role = "assistant"
          /\ messages[k].tool_calls # <<>>
          /\ messages[k].content = PlaceholderContent

\* the tool messages of a list, in order
ToolMessagesOf(msgs) == SelectSeq(msgs, LAMBDA m : m.role = "tool")

\* C9: a failing tool call never ends the loop and never yields an error
\* return: the loop returns a nil error, from the for loop it only goes on
\* to the next tool call or to the next completion, and the tool message of
\* a failed call holds the failure text.
C9_ToolFailureIsFedBack ==
    /\ [](retErr = "")
    /\ [][pc = "exec" => pc' \in {"exec", "prepare"}]_vars
    /\ [](LET fedBack == ToolMessagesOf(messages) IN
          \A k \in 1..Len(executed) :
            executed[k].err # "" =>
                /\ k <= Len(fedBack)
                /\ fedBack[k].content.text = "Error executing %s: %v"
                /\ fedBack[k].content.arg = <<executed[k].call.name, executed[k].err>>)

\* a tool call failed, the call after it was executed and the next
\* completion was requested
C9_Witness ==
    /\ pc = "await"
    /\ \E k \in 1..Len(executed) :
          /\ executed[k].err # ""
          /\ k < Len(executed)
          /\ executed[k + 1].depth = executed[k].depth

\* C10: once the context is cancelled no further tool call is executed.
C10_NoToolCallAfterCancel ==
    [][cancelled => ~(/\ Len(executed') > Len(executed)
                      /\ executed'[Len(executed')].ran)]_vars

\* the first response asked for one search and its result holds an endpoint
\* keyword
FirstSearchUseful ==
    /\ Len(messages) >= 4
    /\ messages[3].role = "assistant"
    /\ Len(messages[3].tool_calls) = 1
    /\ messages[3].tool_calls[1].name = SearchTool
    /\ messages[4].role = "tool"
    /\ messages[4].content.api

\* the force-more-searches instruction is in the message list
ForceInjected ==
    \E k \in 1..Len(messages) :
        /\ messages[k].role = "system"
        /\ messages[k].content.text = ForceSearchContent(0).text

\* C28: when the first search result holds useful content (an endpoint) and
\* the provider then gives a final answer without tool calls, the loop
\* returns that answer after that single search and the force-more-searches
\* instruction is never injected.
C28_UsefulFirstSearchNotForced ==
    (/\ FirstSearchUseful
     /\ pc = "done"
     /\ invocations = 1
     /\ resp.tool_calls = <<>>
     /\ resp.content \in ProviderContents)
    => /\ ~ForceInjected
       /\ countSearchAttempts(messages) = 1

\* the retry tool calls the failure branch has synthesized in this turn
RetryCalls == {c \in produced : c.id[1] = "retry_search"}

\* C29: when a completion inside the loop fails below minSearches with depth
\* budget left, the synthesized retry call is executed and the turn goes on:
\* the turn never ends with a synthesized retry call that was not executed.
C29_RetryCallIsExecuted ==
    pc = "done" => \A c \in RetryCalls : TimesExecuted(c.id) = 1

\* the texts a message content can have before anything is appended to it
ContentTexts ==
    {c.text : c \in ProviderContents \cup {PlaceholderContent, NoOutputContent}}

\* message m carries the instruction that demands a final answer
HasFinalAnswerInstruction(m) ==
    \E t \in ContentTexts : m.content.text = t \o FinalAnswerInstruction

\* C30: at the second-to-last allowed depth the request of the next
\* completion has tools disabled and its message list holds the appended
\* instruction that demands a final answer from what was gathered.
C30_LastRequestDemandsFinalAnswer ==
    (pc = "await" /\ depth = maxDepth - 1)
    => /\ ~finalReq.tools
       /\ finalReq.tool_choice = ""
       /\ \E k \in 1..Len(finalReq.messages) :
             HasFinalAnswerInstruction(finalReq.messages[k])

\* the tool calls whose tool the loop ran although the tool requires
\* confirmation; the loop has no step at which the user confirms anything
RanUnconfirmed ==
    {k \in 1..Len(executed) :
        /\ executed[k].ran
        /\ executed[k].call.name \in DOMAIN Registry(fault)
        /\ Registry(fault)[executed[k].call.name].requiresConfirmation}

\* C36: the loop never runs a tool whose RequiresConfirmation() is true
\* without a confirmation by the user: that the provider asked for the call
\* is no confirmation.
C36_NoUnconfirmedExecution == RanUnconfirmed = {}

(***************************************************************************)
(* FallbackProvider: one call of Complete over an ordered provider list.   *)
(* Each provider of the list is described by what it does in this call:    *)
(* whether IsAvailable answers true and what its Complete returns.         *)
(***************************************************************************)
ErrorTypeAuth == "auth_error"

ErrorTypeRateLimit == "rate_limit"

ErrorTypeQuotaExceed == "quota_exceeded"

ErrorTypeNetwork == "network_error"

ErrorTypeInvalidReq == "invalid_request"

ErrorTypeServerError == "server_error"

ErrorTypes == {ErrorTypeAuth, ErrorTypeRateLimit, ErrorTypeQuotaExceed,
               ErrorTypeNetwork, ErrorTypeInvalidReq, ErrorTypeServerError}

\* a *ProviderError; inner is <<>> or the one error it wraps
ProviderError(provider, type, message, inner) ==
    [provider |-> provider, type |-> type, message |-> message, err |-> inner,
     typed |-> TRUE]

\* an error that is no *ProviderError
PlainError ==
    [provider |-> <<>>, type |-> "", message |-> "context deadline exceeded",
     err |-> <<>>, typed |-> FALSE]

\* the names of the providers createLLMProvider can build, by position
ProviderNames == <<"anthropic", "openai", "gemini", "mock">>

\* what a provider's Complete does: succeed, or fail with an error
Outcomes == {"ok", "plain"} \cup ErrorTypes

\* a provider in one call: unavailable, or available with an outcome
Behaviours ==
    {[available |-> FALSE, outcome |-> "ok"]} \cup
    {[available |-> TRUE, outcome |-> o] : o \in Outcomes}

\* the provider lists of at most MaxProviders providers
ProviderLists == UNION {[1..n -> Behaviours] : n \in 0..MaxProviders}

\* the error of provider.Complete for an outcome (NoError on success)
ProviderCompleteErr(name, outcome) ==
    IF outcome = "ok" THEN NoError
    ELSE IF outcome = "plain" THEN PlainError
    ELSE ProviderError(<<name>>, outcome, "request failed", <<>>)

\* a composite name that forgets the providers
FallbackNameEmpty(providers) == <<"fallback-empty">>

\* FallbackProvider.GetName
FallbackName(providers) ==
    IF Len(providers) = 0 THEN <<"fallback-empty">>
    ELSE <<"fallback">> \o [k \in 1..Len(providers) |-> ProviderNames[k]]

\* a response model left as the provider sent it
AnnotateModelUnnamed(model, name) == <<model>>

\* fmt.Sprintf("%s (%s)", resp.Model, provider.GetName())
AnnotateModel(model, name) == <<model, name>>

\* case ErrorTypeAuth, ErrorTypeQuotaExceed, ErrorTypeRateLimit
IsFallbackType(err) ==
    err.typed /\ err.type \in {ErrorTypeAuth, ErrorTypeQuotaExceed, ErrorTypeRateLimit}

\* a loop that never goes on after an error of another kind
NotLastNever(i, n) == FALSE

\* a loop that goes on after an error of another kind even at the last provider
NotLastAlways(i, n) == TRUE

\* i < len(f.providers)-1, with providers counted from 1
NotLast(i, n) == i < n

\* a loop that takes every provider for available
ProviderAvailableAlways(p) == TRUE

\* provider.IsAvailable(ctx) of a provider of the list
ProviderAvailable(p) == p.available

FallbackInit ==
    /\ fbProviders \in ProviderLists
    /\ fbI = 1
    /\ fbLastError = NoError
    /\ fbInvoked = <<>>
    /\ fbRet = NoReturn
    /\ ParkedBut("fallback")

\* one iteration of the for loop over f.providers
FallbackTry ==
    /\ ~fbRet.returned
    /\ fbI <= Len(fbProviders)
    /\ LET p == fbProviders[fbI]
           name == ProviderNames[fbI]
           err == ProviderCompleteErr(name, p.outcome)
       IN IF ~ProviderAvailable(p)
          THEN /\ fbLastError' = ProviderError(<<name>>, ErrorTypeNetwork,
                                               "provider not available", <<>>)
               /\ fbI' = fbI + 1
               /\ UNCHANGED <<fbInvoked, fbRet>>
          ELSE /\ fbInvoked' = Append(fbInvoked, fbI)
               /\ IF err = NoError
                  THEN /\ fbRet' = [returned |-> TRUE,
                                    model |-> AnnotateModel("model", name),
                                    err |-> NoError]
                       /\ UNCHANGED <<fbI, fbLastError>>
                  ELSE IF IsFallbackType(err)
                  THEN /\ fbLastError' = err
                       /\ fbI' = fbI + 1
                       /\ UNCHANGED fbRet
                  ELSE IF NotLast(fbI, Len(fbProviders))
                  THEN /\ fbLastError' = err
                       /\ fbI' = fbI + 1
                       /\ UNCHANGED fbRet
                  ELSE /\ fbRet' = [returned |-> TRUE, model |-> <<>>, err |-> err]
                       /\ UNCHANGED <<fbI, fbLastError>>
    /\ UNCHANGED fbProviders
    /\ UnchangedBut("fallback")

\* the for loop ended without a return
FallbackExhausted ==
    /\ ~fbRet.returned
    /\ fbI > Len(fbProviders)
    /\ fbRet' = [returned |-> TRUE, model |-> <<>>,
                 err |-> IF fbLastError # NoError
                         THEN ProviderError(FallbackName(fbProviders), ErrorTypeServerError,
                                            "all providers failed", <<fbLastError>>)
                         ELSE ProviderError(FallbackName(fbProviders), ErrorTypeServerError,
                                            "no providers configured", <<>>)]
    /\ UNCHANGED <<fbProviders, fbI, fbLastError, fbInvoked>>
    /\ UnchangedBut("fallback")

FallbackNext ==
    \/ FallbackTry
    \/ FallbackExhausted

FallbackSpec == FallbackInit /\ [][FallbackNext]_vars

\* C11: given providers [A fails with rate_limit, B succeeds], Complete
\* returns B's response with the model annotated with B's name; in general a
\* provider whose Complete succeeded is the last one invoked, its annotated
\* response is what Complete returns, no provider is invoked twice and none
\* is invoked after the return.
C11_SuccessShortCircuits ==
    /\ [](\A j \in 1..Len(fbInvoked) :
            fbProviders[fbInvoked[j]].outcome = "ok" =>
                /\ j = Len(fbInvoked)
                /\ fbRet.returned
                /\ fbRet.err = NoError
                /\ fbRet.model = <<"model", ProviderNames[fbInvoked[j]]>>)
    /\ [](Cardinality({fbInvoked[j] : j \in 1..Len(fbInvoked)}) = Len(fbInvoked))
    /\ [][fbRet.returned => fbInvoked' = fbInvoked]_vars

\* A failed with rate_limit, B succeeded and answers under its name
C11_Witness ==
    /\ fbRet.returned
    /\ Len(fbProviders) = 2
    /\ fbProviders[1] = [available |-> TRUE, outcome |-> ErrorTypeRateLimit]
    /\ fbProviders[2] = [available |-> TRUE, outcome |-> "ok"]
    /\ fbInvoked = <<1, 2>>
    /\ fbRet.model = <<"model", ProviderNames[2]>>

\* the names of a provider list, in order
NamesOf(providers) == [k \in 1..Len(providers) |-> ProviderNames[k]]

\* the failure of the last provider of a non-empty list
LastFailure(providers) ==
    LET n == Len(providers) IN
    IF ~providers[n].available
    THEN ProviderError(<<ProviderNames[n]>>, ErrorTypeNetwork, "provider not available", <<>>)
    ELSE ProviderCompleteErr(ProviderNames[n], providers[n].outcome)

\* C12 (as stated): when Complete of a non-empty list ends without success
\* it returns the wrapped "all providers failed" error that names the
\* fallback set and carries the last underlying error.
C12_ExhaustionReturnsWrappedError ==
    (fbRet.returned /\ fbRet.err # NoError /\ Len(fbProviders) > 0) =>
        /\ fbRet.err.typed
        /\ fbRet.err.message = "all providers failed"
        /\ fbRet.err.provider = <<"fallback">> \o NamesOf(fbProviders)
        /\ fbRet.err.err = <<LastFailure(fbProviders)>>

\* C12 (amended): when Complete ends without success, the error is the
\* wrapped "all providers failed" error naming the fallback set and carrying
\* the last provider's failure if that provider was unavailable or failed
\* with auth, quota_exceeded or rate_limit; it is the last provider's own
\* error, unwrapped, if it failed with any other error; and it is "no
\* providers configured" for an empty list.
C12_ExhaustionErrorByLastProvider ==
    (fbRet.returned /\ fbRet.err # NoError) =>
        IF Len(fbProviders) = 0
        THEN /\ fbRet.err.message = "no providers configured"
             /\ fbRet.err.provider = <<"fallback-empty">>
             /\ fbRet.err.err = <<>>
        ELSE LET last == fbProviders[Len(fbProviders)]
                 lastErr == LastFailure(fbProviders)
             IN IF last.available /\ ~(lastErr.typed /\ lastErr.type \in
                       {"auth_error", "quota_exceeded", "rate_limit"})
                THEN fbRet.err = lastErr
                ELSE /\ fbRet.err.typed
                     /\ fbRet.err.type = "server_error"
                     /\ fbRet.err.message = "all providers failed"
                     /\ fbRet.err.provider = <<"fallback">> \o NamesOf(fbProviders)
                     /\ fbRet.err.err = <<lastErr>>

\* A and B both failed with auth and the wrapped error is returned
C12_Witness ==
    /\ fbRet.returned
    /\ Len(fbProviders) = 2
    /\ \A k \in 1..2 : fbProviders[k] = [available |-> TRUE, outcome |-> ErrorTypeAuth]
    /\ fbInvoked = <<1, 2>>
    /\ fbRet.err.message = "all providers failed"

\* the error provider k fails with is of a kind other than auth,
\* quota_exceeded and rate_limit
FailsOtherwise(k) ==
    /\ fbProviders[k].available
    /\ fbProviders[k].outcome \notin {"ok", "auth_error", "quota_exceeded", "rate_limit"}

\* C13 (as stated): after a provider's Complete failed with an error of a
\* kind other than auth, quota_exceeded and rate_limit, no further provider
\* is tried and that error is what Complete returns.
C13_OtherKindsPropagate ==
    \A j \in 1..Len(fbInvoked) :
        FailsOtherwise(fbInvoked[j]) =>
            /\ j = Len(fbInvoked)
            /\ fbI = fbInvoked[j]
            /\ fbRet.returned =>
                   fbRet.err = ProviderCompleteErr(ProviderNames[fbInvoked[j]],
                                                   fbProviders[fbInvoked[j]].outcome)

\* C13 (amended): a failure of any kind makes Complete go on to the next
\* provider unless the failing provider is the last one: when Complete has
\* returned, the providers invoked are exactly the available ones up to the
\* first that succeeds, and an unwrapped provider error is only ever
\* returned from the last provider, for an error of another kind than auth,
\* quota_exceeded and rate_limit.
C13_AnyFailureBeforeLastFallsBack ==
    fbRet.returned =>
        /\ \A k \in 1..Len(fbProviders) :
              (\E j \in 1..Len(fbInvoked) : fbInvoked[j] = k) <=>
                  /\ fbProviders[k].available
                  /\ \A m \in 1..(k - 1) :
                        ~(fbProviders[m].available /\ fbProviders[m].outcome = "ok")
        /\ (fbRet.err # NoError /\ fbRet.err.message \notin
                {"all providers failed", "no providers configured"}) =>
              /\ fbInvoked # <<>>
              /\ fbInvoked[Len(fbInvoked)] = Len(fbProviders)
              /\ FailsOtherwise(Len(fbProviders))

\* A failed with a network error and B was tried and answered
C13_Witness ==
    /\ fbRet.returned
    /\ Len(fbProviders) = 2
    /\ fbProviders[1] = [available |-> TRUE, outcome |-> ErrorTypeNetwork]
    /\ fbProviders[2] = [available |-> TRUE, outcome |-> "ok"]
    /\ fbInvoked = <<1, 2>>
    /\ fbRet.err = NoError

\* C31: when a provider's Complete fails with an error of another kind than
\* auth, quota_exceeded and rate_limit, the loop goes on to the next provider
\* (keeping the error as the last error) only if the failing provider is not
\* the last one; at the last provider that error is returned as it is.
C31_OtherErrorContinuesUnlessLast ==
    [][(/\ ~fbRet.returned
        /\ fbI <= Len(fbProviders)
        /\ FailsOtherwise(fbI))
       => LET own == ProviderCompleteErr(ProviderNames[fbI], fbProviders[fbI].outcome)
          IN IF fbI < Len(fbProviders)
             THEN /\ ~fbRet'.returned
                  /\ fbI' = fbI + 1
                  /\ fbLastError' = own
             ELSE /\ fbRet'.returned
                  /\ fbRet'.err = own
                  /\ fbRet'.model = <<>>]_vars

\* A failed with invalid_request and the loop went on; B, the last provider,
\* failed with a server error, which is what Complete returns
C31_Witness ==
    /\ fbRet.returned
    /\ Len(fbProviders) = 2
    /\ fbProviders[1] = [available |-> TRUE, outcome |-> ErrorTypeInvalidReq]
    /\ fbProviders[2] = [available |-> TRUE, outcome |-> ErrorTypeServerError]
    /\ fbInvoked = <<1, 2>>
    /\ fbRet.err = ProviderError(<<ProviderNames[2]>>, ErrorTypeServerError,
                                 "request failed", <<>>)

\* C32: Complete is never called on a provider whose IsAvailable answered
\* false: the loop skips that provider without returning, records a "provider
\* not available" error for it as the last error and goes on to the next.
C32_UnavailableProviderSkipped ==
    /\ [](\A j \in 1..Len(fbInvoked) : fbProviders[fbInvoked[j]].available)
    /\ [][(/\ ~fbRet.returned
           /\ fbI <= Len(fbProviders)
           /\ ~fbProviders[fbI].available)
          => /\ fbInvoked' = fbInvoked
             /\ ~fbRet'.returned
             /\ fbI' = fbI + 1
             /\ fbLastError'.typed
             /\ fbLastError'.provider = <<ProviderNames[fbI]>>
             /\ fbLastError'.type = "network_error"
             /\ fbLastError'.message = "provider not available"]_vars

\* A was unavailable and skipped, B was called and answered
C32_Witness ==
    /\ fbRet.returned
    /\ Len(fbProviders) = 2
    /\ ~fbProviders[1].available
    /\ fbProviders[2] = [available |-> TRUE, outcome |-> "ok"]
    /\ fbInvoked = <<2>>
    /\ fbRet.err = NoError

(***************************************************************************)
(* LazyProvider and the agent built on it.  A provider's availability is   *)
(* whatever each probe finds; what its Complete returns is fixed per run.  *)
(* The turn of sendMessageInternal is the one without tool calls: the tool *)
(* loop is the subject of Spec.                                            *)
(***************************************************************************)
\* fmt.Errorf: an error that is no *ProviderError, wrapping inner (%w) if any
Errorf(message, inner) ==
    [provider |-> <<>>, type |-> "", message |-> message, err |-> inner, typed |-> FALSE]

\* what the providers of the agent do when asked to complete
LazyOutcomes == {"ok", ErrorTypeAuth, ErrorTypeRateLimit, ErrorTypeQuotaExceed,
                 ErrorTypeNetwork}

\* the last provider, in list order, that a round of probes finds available
LastAvailable(av) ==
    IF \E k \in DOMAIN av : av[k]
    THEN CHOOSE k \in DOMAIN av : av[k] /\ \A m \in DOMAIN av : av[m] => k >= m
    ELSE 0

\* the first provider, in list order, that a round of probes finds available
FirstAvailable(av) ==
    IF \E k \in DOMAIN av : av[k]
    THEN CHOOSE k \in DOMAIN av : av[k] /\ \A m \in DOMAIN av : av[m] => k <= m
    ELSE 0

\* a background initialization that overwrites the active provider
KeepActiveNot(active, found) == IF found # 0 THEN found ELSE active

\* if lp.activeProvider == nil { ... lp.activeProvider = lp.providers[i] }
KeepActive(active, found) == IF active = 0 THEN found ELSE active

\* ensureActiveProvider: the active provider afterwards (0: it returned false)
ensureActiveProvider(active, av) == KeepActive(active, FirstAvailable(av))

\* LazyProvider.Complete and LazyProvider.Stream
LazyComplete(op, active, av, providers) ==
    LET a == ensureActiveProvider(active, av) IN
    IF a = 0
    THEN [active |-> 0,
          serve |-> [op |-> op, by |-> 0, err |-> Errorf("no LLM providers available", <<>>)]]
    ELSE [active |-> a,
          serve |-> [op |-> op, by |-> a,
                     err |-> ProviderCompleteErr(ProviderNames[a], providers[a])]]

\* LazyProvider.IsAvailable
LazyIsAvailable(active, av) ==
    LET a == ensureActiveProvider(active, av) IN
    [active |-> a, serve |-> [op |-> "IsAvailable", by |-> a, err |-> NoError]]

\* an agent that hands the provider's error to its caller
SendErrorPropagating(err) == err

\* return resp, nil
SendError(err) == NoError

AgentInit ==
    /\ lzProviders \in UNION {[1..n -> LazyOutcomes] : n \in 0..MaxProviders}
    /\ lzActive = 0
    /\ lzBgDone = FALSE
    /\ lzBgFound = 0
    /\ lzLast = NoServe
    /\ agState = "new"
    /\ agSession = FALSE
    /\ agRet = NoAgentReturn
    /\ ParkedBut("agent")

\* NewV3Agent: createLLMProvider, the memory manager, the tools
NewV3Agent ==
    /\ agState = "new"
    /\ IF Len(lzProviders) = 0
       THEN /\ agState' = "failed"
            /\ agRet' = [op |-> "NewV3Agent", content |-> EmptyContent,
                         err |-> Errorf("failed to create LLM provider",
                                        <<Errorf("no LLM providers configured", <<>>)>>)]
       ELSE \E env \in {"ok", "storage", "tools"} :
            IF env = "storage"
            THEN /\ agState' = "failed"
                 /\ agRet' = [op |-> "NewV3Agent", content |-> EmptyContent,
                              err |-> Errorf("failed to initialize memory",
                                  <<Errorf("failed to create storage directory", <<>>)>>)]
            ELSE IF env = "tools"
            THEN /\ agState' = "failed"
                 /\ agRet' = [op |-> "NewV3Agent", content |-> EmptyContent,
                              err |-> Errorf("failed to register basic tools",
                                  <<Errorf("failed to create restricted filesystem", <<>>)>>)]
            ELSE /\ agState' = "ready"
                 /\ agRet' = [op |-> "NewV3Agent", content |-> EmptyContent,
                              err |-> NoError]
    /\ UNCHANGED <<lzProviders, lzActive, lzBgDone, lzBgFound, lzLast, agSession>>
    /\ UnchangedBut("agent")

\* initializeProvidersInBackground, started by NewLazyProvider
LazyBackgroundInit ==
    /\ agState # "new"
    /\ Len(lzProviders) > 0
    /\ ~lzBgDone
    /\ \E results \in [1..Len(lzProviders) -> BOOLEAN] :
          /\ lzBgFound' = FirstAvailable(results)
          /\ lzActive' = KeepActive(lzActive, FirstAvailable(results))
    /\ lzBgDone' = TRUE
    /\ UNCHANGED <<lzProviders, lzLast, agState, agSession, agRet>>
    /\ UnchangedBut("agent")

\* StartConversationWithContext
StartConversation ==
    /\ agState = "ready"
    /\ ~agSession
    /\ agSession' = TRUE
    /\ agRet' = [op |-> "StartConversation", content |-> EmptyContent, err |-> NoError]
    /\ UNCHANGED <<lzProviders, lzActive, lzBgDone, lzBgFound, lzLast, agState>>
    /\ UnchangedBut("agent")

\* sendMessageInternal for a completion without tool calls
AgentSendMessage ==
    /\ agState = "ready"
    /\ IF ~agSession
       THEN /\ agRet' = [op |-> "SendMessage", content |-> EmptyContent,
                         err |-> Errorf("no active conversation session", <<>>)]
            /\ UNCHANGED <<lzActive, lzLast>>
       ELSE \E av1, av2 \in [1..Len(lzProviders) -> BOOLEAN] :
            LET probe == LazyIsAvailable(lzActive, av1)
                r == LazyComplete("Complete", probe.active, av2, lzProviders)
            IN /\ lzActive' = r.active
               /\ lzLast' = r.serve
               /\ agRet' = [op |-> "SendMessage",
                            content |-> IF r.serve.err = NoError
                                        THEN Txt("answer", 150)
                                        ELSE DifficultiesContent(r.serve.err),
                            err |-> SendError(r.serve.err)]
    /\ UNCHANGED <<lzProviders, lzBgDone, lzBgFound, agState, agSession>>
    /\ UnchangedBut("agent")

\* a call of the provider from elsewhere: Stream, or IsAvailable
LazyCall ==
    /\ agState = "ready"
    /\ \E av \in [1..Len(lzProviders) -> BOOLEAN] :
       \E r \in {LazyComplete("Stream", lzActive, av, lzProviders),
                 LazyIsAvailable(lzActive, av)} :
          /\ lzActive' = r.active
          /\ lzLast' = r.serve
    /\ UNCHANGED <<lzProviders, lzBgDone, lzBgFound, agState, agSession, agRet>>
    /\ UnchangedBut("agent")

AgentNext ==
    \/ NewV3Agent
    \/ LazyBackgroundInit
    \/ StartConversation
    \/ AgentSendMessage
    \/ LazyCall

AgentSpec == AgentInit /\ [][AgentNext]_vars

\* the user was answered with the text that reports a provider error of kind
\* auth, quota_exceeded or rate_limit
UserSawFallbackError ==
    /\ agRet.op = "SendMessage"
    /\ agRet.content.text = "I'm experiencing technical difficulties. Error: %v ..."
    /\ agRet.content.arg[1].typed
    /\ agRet.content.arg[1].type \in {"auth_error", "quota_exceeded", "rate_limit"}

\* C14: an auth, quota_exceeded or rate_limit failure of the serving provider
\* reaches the end user only if every configured provider fails: if some
\* configured provider would succeed, the agent switches to it.
C14_FallbackErrorOnlyIfAllFail ==
    UserSawFallbackError => \A k \in 1..Len(lzProviders) : lzProviders[k] # "ok"

C17_ActiveProviderNeverChanges ==
    /\ [][lzActive # 0 => lzActive' = lzActive]_vars
    /\ [][(lzActive # 0 /\ lzLast' # lzLast) => lzLast'.by = lzActive]_vars
    /\ [](lzActive \in 0..Len(lzProviders))
    /\ []((lzBgDone /\ lzBgFound # 0) => lzActive # 0)

\* the second provider is active and answers, although the background
\* probes found the first one available later
C17_Witness ==
    /\ lzActive = 2
    /\ lzBgDone
    /\ lzBgFound = 1
    /\ lzLast.op = "Stream"
    /\ lzLast.by = 2

\* C15: the content sendMessageInternal returns to the end user embeds no
\* error value: when a turn of the tool loop model is done, its response
\* content is text without an error formatted into it (%v), and so is the
\* content of the agent's SendMessage.
C15_NoRawErrorInContent ==
    /\ pc = "done" => resp.content.arg = <<>>
    /\ agRet.op = "SendMessage" => agRet.content.arg = <<>>

(***************************************************************************)
(* The WebSocket server: every connection has its own handler with its own *)
(* sessions map; all handlers share the one agent, whose memory manager    *)
(* has one current session.  A user message is processed in a goroutine    *)
(* that runs sendMessageInternal: it appends the user message, reads the   *)
(* context, waits for the completion and appends the reply.                *)
(***************************************************************************)
\* a message of a session: its role, and the connection whose goroutine
\* appended it
LogEntry(role, c) == [role |-> role, task |-> c]

\* no message of the connection has been taken up
NoTask == [for |-> 0, pc |-> "none", ctxFrom |-> 0, err |-> ""]

\* a goroutine processing a message sent for session sid: where it stands
\* and the session its context was read from (0: none)
NewTask(sid) == [for |-> sid, pc |-> "start", ctxFrom |-> 0, err |-> ""]

SessionInit ==
    /\ wsSessions = [c \in Conns |-> {}]
    /\ ssCount = 0
    /\ agCurrent = 0
    /\ mmCurrent = 0
    /\ ssLog = <<>>
    /\ ssTasks = [c \in Conns |-> NoTask]
    /\ ParkedBut("session")

\* handleStartSession: StartConversationWithContext makes the new session
\* the current one
handleStartSession(c) ==
    /\ ssCount < MaxSessions
    /\ ssCount' = ssCount + 1
    /\ ssLog' = Append(ssLog, <<>>)
    /\ mmCurrent' = ssCount + 1
    /\ agCurrent' = ssCount + 1
    /\ wsSessions' = [wsSessions EXCEPT ![c] = @ \cup {ssCount + 1}]
    /\ UNCHANGED ssTasks
    /\ UnchangedBut("session")

\* handleLoadSession: LoadConversation makes the loaded session the current
\* one (a session that cannot be loaded changes nothing); a client loads
\* the sessions its connection does not hold yet
handleLoadSession(c, sid) ==
    /\ sid \in 1..ssCount
    /\ sid \notin wsSessions[c]
    /\ mmCurrent' = sid
    /\ agCurrent' = sid
    /\ wsSessions' = [wsSessions EXCEPT ![c] = @ \cup {sid}]
    /\ UNCHANGED <<ssCount, ssLog, ssTasks>>
    /\ UnchangedBut("session")

\* handleMessage: a session the handler does not hold is loaded first; then
\* the message is handed to a goroutine, without its session id.  Each
\* connection sends one message.
handleMessage(c, sid) ==
    /\ sid \in 1..ssCount
    /\ ssTasks[c] = NoTask
    /\ IF sid \in wsSessions[c]
       THEN UNCHANGED <<mmCurrent, agCurrent, wsSessions>>
       ELSE /\ mmCurrent' = sid
            /\ agCurrent' = sid
            /\ wsSessions' = [wsSessions EXCEPT ![c] = @ \cup {sid}]
    /\ ssTasks' = [ssTasks EXCEPT ![c] = NewTask(sid)]
    /\ UNCHANGED <<ssCount, ssLog>>
    /\ UnchangedBut("session")

\* handleDeleteSession: DeleteConversation clears the current session if it
\* is the one deleted
handleDeleteSession(sid) ==
    /\ sid \in 1..ssCount
    /\ agCurrent = sid \/ mmCurrent = sid
    /\ agCurrent' = IF agCurrent = sid THEN 0 ELSE agCurrent
    /\ mmCurrent' = IF mmCurrent = sid THEN 0 ELSE mmCurrent
    /\ UNCHANGED <<wsSessions, ssCount, ssLog, ssTasks>>
    /\ UnchangedBut("session")

\* AddMessageToCurrentSession, GetContextForQuery: the session they work on
\* for a message that was sent for session sid
SessionFor(sid, current) == current

\* sendMessageInternal up to AddMessageToCurrentSession(userMessage)
TaskAddUser(c) ==
    /\ ssTasks[c].pc = "start"
    /\ LET s == SessionFor(ssTasks[c].for, mmCurrent) IN
       IF agCurrent = 0
       THEN /\ ssTasks' = [ssTasks EXCEPT ![c].pc = "failed",
                                          ![c].err = "no active conversation session"]
            /\ UNCHANGED ssLog
       ELSE IF s = 0
       THEN /\ ssTasks' = [ssTasks EXCEPT ![c].pc = "failed",
                                          ![c].err = "failed to add message to session"]
            /\ UNCHANGED ssLog
       ELSE /\ ssLog' = [ssLog EXCEPT ![s] = Append(@, LogEntry("user", c))]
            /\ ssTasks' = [ssTasks EXCEPT ![c].pc = "added"]
    /\ UNCHANGED <<wsSessions, ssCount, agCurrent, mmCurrent>>
    /\ UnchangedBut("session")

\* GetContextForQuery: the context of the request, then Complete is called
TaskContext(c) ==
    /\ ssTasks[c].pc = "added"
    /\ ssTasks' = [ssTasks EXCEPT ![c].pc = "await",
                                  ![c].ctxFrom = SessionFor(ssTasks[c].for, mmCurrent)]
    /\ UNCHANGED <<wsSessions, ssCount, agCurrent, mmCurrent, ssLog>>
    /\ UnchangedBut("session")

\* the completion is back: AddMessageToCurrentSession(assistantMessage)
TaskReply(c) ==
    /\ ssTasks[c].pc = "await"
    /\ LET s == SessionFor(ssTasks[c].for, mmCurrent) IN
       IF s = 0
       THEN /\ ssTasks' = [ssTasks EXCEPT ![c].pc = "failed",
                                          ![c].err = "failed to add response to session"]
            /\ UNCHANGED ssLog
       ELSE /\ ssLog' = [ssLog EXCEPT ![s] = Append(@, LogEntry("assistant", c))]
            /\ ssTasks' = [ssTasks EXCEPT ![c].pc = "done"]
    /\ UNCHANGED <<wsSessions, ssCount, agCurrent, mmCurrent>>
    /\ UnchangedBut("session")

SessionNext ==
    \/ \E c \in Conns : handleStartSession(c)
    \/ \E c \in Conns, sid \in 1..MaxSessions : handleLoadSession(c, sid)
    \/ \E c \in Conns, sid \in 1..MaxSessions : handleMessage(c, sid)
    \/ \E sid \in 1..MaxSessions : handleDeleteSession(sid)
    \/ \E c \in Conns : TaskAddUser(c)
    \/ \E c \in Conns : TaskContext(c)
    \/ \E c \in Conns : TaskReply(c)

SessionSpec == SessionInit /\ [][SessionNext]_vars

\* C18: messages processed for different sessions never interfere: the user
\* message sent for session S and the reply to it are appended only to
\* session S, and the context used to answer it is read only from session S.
C18_SessionsNeverInterfere ==
    /\ \A c \in Conns : ssTasks[c].ctxFrom \in {0, ssTasks[c].for}
    /\ \A s \in 1..Len(ssLog) : \A k \in 1..Len(ssLog[s]) :
          ssTasks[ssLog[s][k].task].for = s

\* the messages the SendMessage call of connection c has appended to session s
AppendedBy(c, s) == SelectSeq(ssLog[s], LAMBDA e : e.task = c)

\* C39: a SendMessage call that returns a response has appended two messages
\* to one session, the user message and then the assistant message, and
\* nothing to any other session; a call that returns an error has appended
\* nothing.  (The loop appends to its own message list only: the two
\* AddMessageToCurrentSession calls are the only writes.)
C39_SendMessageAppendsUserThenAssistant ==
    \A c \in Conns :
        /\ ssTasks[c].pc = "done" =>
              \E s \in 1..Len(ssLog) :
                  /\ AppendedBy(c, s) = <<LogEntry("user", c), LogEntry("assistant", c)>>
                  /\ \A o \in 1..Len(ssLog) : o # s => AppendedBy(c, o) = <<>>
        /\ ssTasks[c].pc = "failed" =>
              \A s \in 1..Len(ssLog) : AppendedBy(c, s) = <<>>

(***************************************************************************)
(* The tool registry on its own: tools are registered, and ExecuteTool is  *)
(* called with any tool name, parameters and confirmation.                 *)
(***************************************************************************)
\* the tools that can be registered, by name: the search tool, http_get in
\* the conditions it can be in, and file_write
RegistrableTools(name) ==
    IF name \in {SearchTool, ""} THEN {KbaseTool}
    ELSE IF name = OtherTool
    THEN {BaseToolIn(f) : f \in {"none", "unavailable", "execerr"}}
    ELSE {FileWriteTool}

ToolNames == {SearchTool, OtherTool, "file_write"}

\* the parameter names a caller passes to the named tool: names of its schema
SchemaProperties(name) ==
    IF name = SearchTool THEN {"query", "max_results"}
    ELSE IF name = OtherTool THEN {"url", "timeout"}
    ELSE IF name = "file_write" THEN {"path", "content"}
    ELSE {}

\* the ToolExecution values ExecuteTool is called with
Executions ==
    {[ToolName |-> n, Parameters |-> ps, Confirmed |-> cf] :
        n \in ToolNames, ps \in SUBSET {"query", "max_results", "url", "timeout", "path", "content"},
        cf \in BOOLEAN}

RegistryInit ==
    /\ rgTools = <<>>
    /\ rgHistory = <<>>
    /\ rgLast = NoExecution
    /\ rgCount = 0
    /\ rgRegLast = NoRegistration
    /\ ParkedBut("registry")

\* a registry that lets a tool be registered over another one
AlreadyRegisteredNever(tools, name) == FALSE

\* _, exists := tr.tools[name]
AlreadyRegistered(tools, name) == name \in DOMAIN tools

\* tr.tools[name] = tool
WithTool(tools, name, tool) ==
    [n \in DOMAIN tools \cup {name} |-> IF n = name THEN tool ELSE tools[n]]

\* ToolRegistry.RegisterTool: the registry afterwards and the error returned
\* ("" is nil) for a tool (isNil: no tool at all) of the given name
RegisterToolResult(tools, isNil, name, tool) ==
    IF isNil THEN [tools |-> tools, err |-> "cannot register nil tool"]
    ELSE IF name = "" THEN [tools |-> tools, err |-> "tool name cannot be empty"]
    ELSE IF AlreadyRegistered(tools, name)
    THEN [tools |-> tools, err |-> "tool is already registered"]
    ELSE [tools |-> WithTool(tools, name, tool), err |-> ""]

\* RegisterTool is called: with no tool, with a tool without a name, or with
\* one of the tools under its name
RegisterTool ==
    /\ \E isNil \in BOOLEAN, name \in ToolNames \cup {""} :
       \E tool \in RegistrableTools(name) :
          /\ isNil => (name = "" /\ tool = KbaseTool)
          /\ LET r == RegisterToolResult(rgTools, isNil, name, tool) IN
             /\ rgTools' = r.tools
             /\ rgRegLast' = [nil |-> isNil, name |-> name, tool |-> tool, err |-> r.err]
    /\ UNCHANGED <<rgHistory, rgLast, rgCount>>
    /\ UnchangedBut("registry")

\* ExecuteTool, with recordExecution for the calls that reach Execute (call
\* tells which ExecuteTool call an entry of the history was recorded by)
RegistryExecuteTool ==
    /\ rgCount < MaxExecutions
    /\ \E execution \in Executions :
          /\ execution.Parameters \subseteq SchemaProperties(execution.ToolName)
          /\ LET out == ExecuteTool(rgTools, execution) IN
             /\ rgLast' = [execution |-> execution, out |-> out]
             /\ rgHistory' = IF out.ran
                             THEN Append(rgHistory, [execution |-> execution,
                                                     success |-> out.result.success,
                                                     call |-> rgCount + 1])
                             ELSE rgHistory
    /\ rgCount' = rgCount + 1
    /\ UNCHANGED <<rgTools, rgRegLast>>
    /\ UnchangedBut("registry")

RegistryNext ==
    \/ RegisterTool
    \/ RegistryExecuteTool

RegistrySpec == RegistryInit /\ [][RegistryNext]_vars

\* the last ExecuteTool call was recorded in the execution history
LastCallRecorded == \E k \in 1..Len(rgHistory) : rgHistory[k].call = rgCount

\* the last ExecuteTool call found its tool registered and available
LastCallReachedTool ==
    /\ rgCount > 0
    /\ rgLast.out.err = ""
    /\ rgLast.execution.ToolName \in DOMAIN rgTools
    /\ rgTools[rgLast.execution.ToolName].available

\* C19: ExecuteTool on a tool that requires confirmation, called with
\* Confirmed = false, returns success = false with requires_confirmation
\* metadata, and the tool's Execute is not called: nothing is recorded in
\* the execution history for that call.
C19_UnconfirmedNeverExecutes ==
    /\ (/\ LastCallReachedTool
        /\ rgTools[rgLast.execution.ToolName].requiresConfirmation
        /\ ~rgLast.execution.Confirmed) =>
          /\ ~rgLast.out.result.success
          /\ rgLast.out.result.requires_confirmation
          /\ rgLast.out.result.error = "confirmation required"
          /\ ~rgLast.out.ran
          /\ ~LastCallRecorded
    /\ \A k \in 1..Len(rgHistory) :
          LET e == rgHistory[k].execution IN
          e.ToolName = "file_write" => e.Confirmed

\* file_write was called without confirmation and with all its parameters
C19_Witness ==
    /\ LastCallReachedTool
    /\ rgLast.execution = [ToolName |-> "file_write", Parameters |-> {"path", "content"},
                           Confirmed |-> FALSE]
    /\ rgLast.out.result.requires_confirmation
    /\ rgHistory = <<>>

\* the last call lacks a parameter the schema of its tool requires, and no
\* confirmation stands in its way
LastCallLacksRequired ==
    /\ LastCallReachedTool
    /\ LET tool == rgTools[rgLast.execution.ToolName] IN
       /\ ~(tool.required \subseteq rgLast.execution.Parameters)
       /\ tool.requiresConfirmation => rgLast.execution.Confirmed

C23_UnavailableNeverExecutes ==
    (/\ rgCount > 0
     /\ rgLast.execution.ToolName \in DOMAIN rgTools
     /\ rgLast.out.err # "tool not found"
     /\ ~rgTools[rgLast.execution.ToolName].available) =>
        /\ rgLast.out.err = ""
        /\ ~rgLast.out.result.success
        /\ rgLast.out.result.error = "tool is not available"
        /\ ~rgLast.out.ran
        /\ ~LastCallRecorded

\* http_get is registered but unavailable, and was called with its url
C23_Witness ==
    /\ rgCount > 0
    /\ OtherTool \in DOMAIN rgTools
    /\ ~rgTools[OtherTool].available
    /\ rgLast.execution.ToolName = OtherTool
    /\ "url" \in rgLast.execution.Parameters
    /\ rgLast.out.err = ""
    /\ rgLast.out.result.error = "tool is not available"

\* C24: RegisterTool fails when the tool's name is empty or a tool of that
\* name is registered already, and then the registry is unchanged, the
\* earlier tool staying bound to the name; otherwise it succeeds, the tool is
\* retrievable under its name and the other tools stay as they were.
C24_RegisterToolFailsOrBinds ==
    [][rgRegLast' # rgRegLast =>
          LET r == rgRegLast' IN
          IF r.nil \/ r.name = "" \/ r.name \in DOMAIN rgTools
          THEN /\ r.err # ""
               /\ rgTools' = rgTools
          ELSE /\ r.err = ""
               /\ DOMAIN rgTools' = DOMAIN rgTools \cup {r.name}
               /\ rgTools'[r.name] = r.tool
               /\ \A n \in DOMAIN rgTools : rgTools'[n] = rgTools[n]]_vars

\* http_get stays registered as it was although it was registered again, in
\* another condition, and that call failed
C24_Witness ==
    /\ OtherTool \in DOMAIN rgTools
    /\ rgRegLast.name = OtherTool
    /\ rgRegLast.err = "tool is already registered"
    /\ rgRegLast.tool # rgTools[OtherTool]

(***************************************************************************)
(* The execution history of the registry.  ExecuteTool is called by        *)
(* concurrent callers on a registry holding the three tools; a call that   *)
(* reaches the tool's Execute measures its duration and then records the   *)
(* execution under the registry's lock.  maxHistory is the field           *)
(* recordExecution reads: the registry is looked at with small values of   *)
(* it as well as with the one NewToolRegistry sets.                        *)
(***************************************************************************)
\* the registry the history is kept for
HistoryRegistry == WithTool(Registry("none"), "file_write", FileWriteTool)

\* the values of tr.maxHistory
HistoryCaps == (1..MaxExecutions) \cup {maxHistory}

\* result.Duration, in nanoseconds: what time.Since(start) can return
Durations == {0, 1, 2}

\* the calls made: the tools with all their required parameters or with
\* none, file_write with and without confirmation
HistoryExecutions ==
    {[ToolName |-> n, Parameters |-> ps, Confirmed |-> cf] :
        n \in ToolNames, ps \in {{}, {"query"}, {"url"}, {"path", "content"}},
        cf \in BOOLEAN}

\* ToolExecutionHistory: the tool name of the execution, Result.Success and
\* Result.Duration (call tells which ExecuteTool call recorded the entry)
HistoryEntry(call, name, success, duration) ==
    [call |-> call, tool |-> name, success |-> success, duration |-> duration]

\* a history that is never cut
KeepAll(history, cap) == history

\* tr.history[len(tr.history)-tr.maxHistory:] if len(tr.history) > tr.maxHistory
KeepLast(history, cap) ==
    IF Len(history) > cap
    THEN SubSeq(history, Len(history) - cap + 1, Len(history))
    ELSE history

\* a recordExecution that drops the entry
AppendedNot(history, entry) == history

\* tr.history = append(tr.history, history)
Appended(history, entry) == Append(history, entry)

recordExecution(history, entry, cap) == KeepLast(Appended(history, entry), cap)

HistoryInit ==
    /\ hsMaxHistory \in HistoryCaps
    /\ hsHistory = <<>>
    /\ hsCalls = <<>>
    /\ hsAll = <<>>
    /\ ParkedBut("history")

\* ExecuteTool up to the return of the tool's Execute, or up to its own
\* return if the call does not get that far
HistoryExecuteTool ==
    /\ Len(hsCalls) < MaxExecutions
    /\ \E execution \in HistoryExecutions, d \in Durations :
          /\ execution.Confirmed => execution.ToolName = "file_write"
          /\ execution.Parameters \subseteq SchemaProperties(execution.ToolName)
          /\ LET out == ExecuteTool(HistoryRegistry, execution) IN
             /\ ~out.ran => d = 0
             /\ hsCalls' = Append(hsCalls,
                   [tool |-> execution.ToolName, ran |-> out.ran,
                    success |-> out.result.success, duration |-> d,
                    pc |-> IF out.ran THEN "executed" ELSE "returned"])
    /\ UNCHANGED <<hsMaxHistory, hsHistory, hsAll>>
    /\ UnchangedBut("history")

\* recordExecution, and the return of the call
HistoryRecord(c) ==
    /\ c \in 1..Len(hsCalls)
    /\ hsCalls[c].pc = "executed"
    /\ LET entry == HistoryEntry(c, hsCalls[c].tool, hsCalls[c].success,
                                 hsCalls[c].duration) IN
       /\ hsHistory' = recordExecution(hsHistory, entry, hsMaxHistory)
       /\ hsAll' = Append(hsAll, entry)
    /\ hsCalls' = [hsCalls EXCEPT ![c].pc = "returned"]
    /\ UNCHANGED hsMaxHistory
    /\ UnchangedBut("history")

HistoryNext ==
    \/ HistoryExecuteTool
    \/ \E c \in 1..MaxExecutions : HistoryRecord(c)

HistorySpec == HistoryInit /\ [][HistoryNext]_vars

\* call c returns in this step
Returns(c) ==
    /\ c \in 1..Len(hsCalls')
    /\ hsCalls'[c].pc = "returned"
    /\ c > Len(hsCalls) \/ hsCalls[c].pc # "returned"

\* a is what b ends with
IsSuffix(a, b) ==
    /\ Len(a) <= Len(b)
    /\ a = SubSeq(b, Len(b) - Len(a) + 1, Len(b))

\* this step puts one entry for call c at the end of the history and keeps
\* the entries that were there, as far as maxHistory leaves room for them
JustRecorded(c) ==
    /\ hsHistory' # <<>>
    /\ hsHistory'[Len(hsHistory')] =
          [call |-> c, tool |-> hsCalls'[c].tool, success |-> hsCalls'[c].success,
           duration |-> hsCalls'[c].duration]
    /\ Len(hsHistory') = IF Len(hsHistory) < hsMaxHistory
                         THEN Len(hsHistory) + 1 ELSE hsMaxHistory
    /\ IsSuffix(SubSeq(hsHistory', 1, Len(hsHistory') - 1), hsHistory)

\* C21 (as stated): every ExecuteTool call on a registered tool appends
\* exactly one entry to the execution history, whatever its result.
C21_EveryCallRecorded ==
    [][\A c \in 1..MaxExecutions : Returns(c) => JustRecorded(c)]_vars

\* C21 (amended): a call that reaches the tool's Execute appends exactly one
\* entry, for a success and for a failure alike, and concurrent calls lose no
\* entry: the entries that were there stay, in their order, up to the cut at
\* maxHistory.  A call that returns before Execute records nothing.
C21_ExecutedCallsRecorded ==
    [][\A c \in 1..MaxExecutions :
          Returns(c) => IF hsCalls'[c].ran
                        THEN JustRecorded(c)
                        ELSE hsHistory' = hsHistory]_vars

\* two calls were under way at the same time, the second was recorded first,
\* one of them failed, and the history holds both
C21_Witness ==
    /\ Len(hsCalls) = 2
    /\ Len(hsHistory) = 2
    /\ hsHistory[1].call = 2
    /\ hsHistory[2].call = 1
    /\ hsHistory[1].success # hsHistory[2].success

\* C22: the execution history never holds more than maxHistory entries, and
\* it is always the most recent executions in the order they were recorded
\* in: what is cut off is the oldest entries.
C22_HistoryIsLastMaxHistory ==
    /\ Len(hsHistory) <= hsMaxHistory
    /\ Len(hsHistory) = IF Len(hsAll) < hsMaxHistory THEN Len(hsAll) ELSE hsMaxHistory
    /\ IsSuffix(hsHistory, hsAll)
    /\ \A k \in 1..Len(hsAll) : hsCalls[hsAll[k].call].pc = "returned"

\* two executions were recorded by a registry that keeps one: the history
\* holds the second
C22_Witness ==
    /\ hsMaxHistory = 1
    /\ Len(hsAll) = 2
    /\ hsHistory = <<hsAll[2]>>
    /\ hsAll[1] # hsAll[2]

\* the zero value of ToolUsageStats
ZeroStat ==
    [ToolName |-> "", TotalExecutions |-> 0, SuccessfulExecutions |-> 0,
     FailedExecutions |-> 0, TotalDuration |-> 0, MinDuration |-> 0,
     MaxDuration |-> 0]

\* the body of the loop of GetToolUsageStats over tr.history, for one entry
StatStep(stat, e) ==
    [ToolName |-> e.tool,
     TotalExecutions |-> stat.TotalExecutions + 1,
     TotalDuration |-> stat.TotalDuration + e.duration,
     SuccessfulExecutions |-> stat.SuccessfulExecutions + (IF e.success THEN 1 ELSE 0),
     FailedExecutions |-> stat.FailedExecutions + (IF e.success THEN 0 ELSE 1),
     MaxDuration |-> IF e.duration > stat.MaxDuration THEN e.duration ELSE stat.MaxDuration,
     MinDuration |-> IF stat.MinDuration = 0 \/ e.duration < stat.MinDuration
                     THEN e.duration ELSE stat.MinDuration]

RECURSIVE StatOf(_, _)
\* stats[name] after the loop over the history
StatOf(history, name) ==
    IF history = <<>> THEN ZeroStat
    ELSE LET before == StatOf(SubSeq(history, 1, Len(history) - 1), name)
             e == history[Len(history)]
         IN IF e.tool = name THEN StatStep(before, e) ELSE before

\* the second loop: AverageDuration is an integer division of durations,
\* SuccessRate the quotient of the two counts, kept as numerator and
\* denominator
WithAverages(stat) ==
    [stat |-> stat,
     AverageDuration |-> IF stat.TotalExecutions > 0
                         THEN stat.TotalDuration \div stat.TotalExecutions ELSE 0,
     SuccessRate |-> IF stat.TotalExecutions > 0
                     THEN <<stat.SuccessfulExecutions, stat.TotalExecutions>>
                     ELSE <<0, 1>>]

\* GetToolUsageStats: the statistics of every tool name in the history
GetToolUsageStats(history) ==
    [name \in {history[k].tool : k \in 1..Len(history)} |->
        WithAverages(StatOf(history, name))]

RECURSIVE SumDurations(_, _)
\* the sum of the durations of the entries of the history at the indices in the set
SumDurations(history, at) ==
    IF at = {} THEN 0
    ELSE LET k == CHOOSE k \in at : TRUE
         IN history[k].duration + SumDurations(history, at \ {k})

\* C25: for every tool name in the history the usage statistics report
\* SuccessfulExecutions + FailedExecutions = TotalExecutions, SuccessRate =
\* successes / total, AverageDuration = total duration / total, and
\* MinDuration and MaxDuration equal to the smallest and the largest recorded
\* duration of that tool.
C25_UsageStatsMatchHistory ==
    LET stats == GetToolUsageStats(hsHistory) IN
    \A name \in DOMAIN stats :
        LET at == {k \in 1..Len(hsHistory) : hsHistory[k].tool = name}
            good == {k \in at : hsHistory[k].success}
            total == SumDurations(hsHistory, at)
            s == stats[name]
        IN /\ s.stat.TotalExecutions = Cardinality(at)
           /\ s.stat.SuccessfulExecutions = Cardinality(good)
           /\ s.stat.SuccessfulExecutions + s.stat.FailedExecutions = s.stat.TotalExecutions
           /\ s.SuccessRate = <<Cardinality(good), Cardinality(at)>>
           /\ s.AverageDuration = total \div Cardinality(at)
           /\ \A k \in at : s.stat.MinDuration <= hsHistory[k].duration
           /\ \E k \in at : s.stat.MinDuration = hsHistory[k].duration
           /\ \A k \in at : s.stat.MaxDuration >= hsHistory[k].duration
           /\ \E k \in at : s.stat.MaxDuration = hsHistory[k].duration


(***************************************************************************)
(* HTTP errors of the concrete providers: Complete got a response whose    *)
(* status is not 200 and returns handleHTTPError(status, body).            *)
(***************************************************************************)

\* GetName of the three providers
HTTPProviders == {"anthropic", "openai", "gemini"}

\* status codes of a response that is not 200
HTTPStatuses == {400, 401, 402, 403, 404, 429, 500, 503}

\* the bodies of an error response: json tells whether json.Unmarshal into
\* the provider's error structure succeeds, message is its error.message
HTTPBodies ==
    {[json |-> FALSE, message |-> "<html>"],
     [json |-> TRUE, message |-> ""],
     [json |-> TRUE, message |-> "bad"]}

\* the switch on statusCode of AnthropicProvider and OpenAIProvider
StatusErrorType(statusCode) ==
    CASE statusCode = 401 -> ErrorTypeAuth
      [] statusCode = 429 -> ErrorTypeRateLimit
      [] statusCode = 400 -> ErrorTypeInvalidReq
      [] OTHER -> ErrorTypeServerError

\* the switch on statusCode of GeminiProvider
GeminiStatusErrorType(statusCode) ==
    CASE statusCode \in {401, 403} -> ErrorTypeAuth
      [] statusCode = 429 -> ErrorTypeRateLimit
      [] statusCode = 400 -> ErrorTypeInvalidReq
      [] OTHER -> ErrorTypeServerError

\* the error returned when the body is not the provider's error JSON:
\* "HTTP <status>: <body>"
UnparsedHTTPError(p, statusCode, body) ==
    [Provider |-> p, Type |-> ErrorTypeServerError,
     Message |-> [status |-> statusCode, text |-> body.message]]

\* AnthropicProvider.handleHTTPError and OpenAIProvider.handleHTTPError
PlainHandleHTTPError(p, statusCode, body) ==
    IF ~body.json THEN UnparsedHTTPError(p, statusCode, body)
    ELSE [Provider |-> p, Type |-> StatusErrorType(statusCode),
          Message |-> [status |-> 0, text |-> body.message]]

\* GeminiProvider.handleHTTPError
GeminiHandleHTTPError(p, statusCode, body) ==
    IF ~body.json THEN UnparsedHTTPError(p, statusCode, body)
    ELSE [Provider |-> p, Type |-> GeminiStatusErrorType(statusCode),
          Message |-> [status |-> 0,
                       text |-> IF body.message # "" THEN body.message
                                ELSE "unknown error"]]

\* handleHTTPError of provider p
handleHTTPError(p, statusCode, body) ==
    IF p = "gemini" THEN GeminiHandleHTTPError(p, statusCode, body)
    ELSE PlainHandleHTTPError(p, statusCode, body)

HTTPInit ==
    /\ htResp = NoHTTPResponse
    /\ htErr = NoHTTPError
    /\ ParkedBut("http")

\* Complete of provider p reads a response whose status is not 200
HTTPReceive(p, statusCode, body) ==
    /\ htResp' = [provider |-> p, status |-> statusCode, body |-> body]
    /\ htErr' = NoHTTPError
    /\ UnchangedBut("http")

\* Complete returns handleHTTPError(resp.StatusCode, body)
HTTPReturnError ==
    /\ htResp # NoHTTPResponse
    /\ htErr = NoHTTPError
    /\ htErr' = handleHTTPError(htResp.provider, htResp.status, htResp.body)
    /\ UNCHANGED htResp
    /\ UnchangedBut("http")

HTTPNext ==
    \/ \E p \in HTTPProviders, statusCode \in HTTPStatuses, body \in HTTPBodies :
            HTTPReceive(p, statusCode, body)
    \/ HTTPReturnError

HTTPSpec == HTTPInit /\ [][HTTPNext]_vars

\* C26: every concrete provider maps a non-success HTTP response to a
\* ProviderError by the status code alone: 401 and 403 give auth, 429 gives
\* rate_limit, 400 gives invalid_request, every other status server_error.
C26_ErrorTypeByStatusAlone ==
    htErr # NoHTTPError =>
        /\ htErr.Provider = htResp.provider
        /\ htErr.Type = (IF htResp.status \in {401, 403} THEN "auth_error"
                         ELSE IF htResp.status = 429 THEN "rate_limit"
                         ELSE IF htResp.status = 400 THEN "invalid_request"
                         ELSE "server_error")


(***************************************************************************)
(* Stream of the providers: one call, the goroutine it starts, the chunks  *)
(* the goroutine sends and the context it selects on.                      *)
(***************************************************************************)

\* the response contents: strings of at most MaxContent characters, of
\* letters and white space
Contents == UNION {[1..n -> {"a", "b", " "}] : n \in 0..MaxContent}

RECURSIVE FieldsFrom(_, _, _)
\* strings.Fields on the rest s of a string, with the word cur under way and
\* the words acc found so far
FieldsFrom(s, cur, acc) ==
    LET found == IF cur = <<>> THEN acc ELSE Append(acc, cur) IN
    IF s = <<>> THEN found
    ELSE IF Head(s) = " " THEN FieldsFrom(Tail(s), <<>>, found)
    ELSE FieldsFrom(Tail(s), Append(cur, Head(s)), acc)

\* strings.Fields: the maximal runs of characters that are not white space
Fields(s) == FieldsFrom(s, <<>>, <<>>)

\* StreamChunk{Content: word + " ", Done: false}
WordChunk(word) == [Content |-> word \o <<" ">>, Done |-> FALSE]

\* StreamChunk{Content: "", Done: true}
DoneChunk == [Content |-> <<>>, Done |-> TRUE]

\* StreamChunk{Content: "Error: ...", Done: true}
ErrorChunk == [Content |-> <<"Error: ">>, Done |-> TRUE]

\* a call of Stream on a provider, or through a FallbackProvider whose first
\* provider it is; fail is MockProvider.shouldFail or an error of
\* AnthropicProvider.Complete, available is provider.IsAvailable
StreamInit ==
    /\ stReq \in [via : {"direct", "fallback"}, provider : {"anthropic", "mock"},
                  content : Contents, fail : BOOLEAN, available : BOOLEAN]
    /\ stReq.via = "direct" => stReq.available
    /\ stPc = IF stReq.via = "fallback" THEN "fallback" ELSE "provider"
    /\ stWords = <<>>
    /\ stPos = 0
    /\ stCh = <<>>
    /\ stClosed = FALSE
    /\ stCtxDone = FALSE
    /\ stOk = FALSE
    /\ ParkedBut("stream")

\* FallbackProvider.Stream: the first available provider's Stream is called
\* with the context the deferred cancel() ends; with none available a
\* goroutine sends an error chunk
FallbackStream ==
    /\ stPc = "fallback"
    /\ stPc' = IF stReq.available THEN "provider" ELSE "error"
    /\ UNCHANGED <<stReq, stWords, stPos, stCh, stClosed, stCtxDone, stOk>>
    /\ UnchangedBut("stream")

\* MockProvider.Stream: a goroutine for the error chunk when shouldFail,
\* else one that splits generateResponse(req) into words
MockStream ==
    /\ stPc = "provider"
    /\ stReq.provider = "mock"
    /\ IF stReq.fail
       THEN /\ stPc' = "error"
            /\ UNCHANGED <<stWords, stPos, stOk>>
       ELSE /\ stPc' = "words"
            /\ stWords' = Fields(stReq.content)
            /\ stPos' = 1
            /\ stOk' = TRUE
    /\ UNCHANGED <<stReq, stCh, stClosed, stCtxDone>>
    /\ UnchangedBut("stream")

\* AnthropicProvider.Stream: the goroutine starts with p.Complete(ctx, req)
AnthropicStream ==
    /\ stPc = "provider"
    /\ stReq.provider = "anthropic"
    /\ stPc' = "complete"
    /\ UNCHANGED <<stReq, stWords, stPos, stCh, stClosed, stCtxDone, stOk>>
    /\ UnchangedBut("stream")

\* the goroutine of AnthropicProvider.Stream: Complete returns; an HTTP
\* request under a cancelled context fails
StreamComplete ==
    /\ stPc = "complete"
    /\ IF stReq.fail \/ stCtxDone
       THEN /\ stPc' = "error"
            /\ UNCHANGED <<stWords, stPos, stOk>>
       ELSE /\ stPc' = "words"
            /\ stWords' = Fields(stReq.content)
            /\ stPos' = 1
            /\ stOk' = TRUE
    /\ UNCHANGED <<stReq, stCh, stClosed, stCtxDone>>
    /\ UnchangedBut("stream")

\* the context ends: the deferred cancel() of FallbackProvider.Stream once
\* the provider's Stream has returned, or the caller's cancellation
StreamCancel ==
    /\ stPc \notin {"", "fallback"}
    /\ stReq.via = "fallback" => stPc # "provider"
    /\ ~stCtxDone
    /\ stCtxDone' = TRUE
    /\ UNCHANGED <<stReq, stPc, stWords, stPos, stCh, stClosed, stOk>>
    /\ UnchangedBut("stream")

\* the select of the word loop takes the send (ch has room for 10 chunks)
StreamSendWord ==
    /\ stPc = "words"
    /\ stPos <= Len(stWords)
    /\ stCh' = Append(stCh, WordChunk(stWords[stPos]))
    /\ stPos' = stPos + 1
    /\ UNCHANGED <<stReq, stPc, stWords, stClosed, stCtxDone, stOk>>
    /\ UnchangedBut("stream")

\* the select of the word loop takes <-ctx.Done(): return, and the deferred
\* close(ch)
StreamCtxDone ==
    /\ stPc = "words"
    /\ stPos <= Len(stWords)
    /\ stCtxDone
    /\ stPc' = "closed"
    /\ stClosed' = TRUE
    /\ UNCHANGED <<stReq, stWords, stPos, stCh, stCtxDone, stOk>>
    /\ UnchangedBut("stream")

\* after the loop: ch <- StreamChunk{Content: "", Done: true}
StreamSendDone ==
    /\ stPc = "words"
    /\ stPos > Len(stWords)
    /\ stCh' = Append(stCh, DoneChunk)
    /\ stPc' = "return"
    /\ UNCHANGED <<stReq, stWords, stPos, stClosed, stCtxDone, stOk>>
    /\ UnchangedBut("stream")

\* the goroutine of an error: one chunk "Error: ..." with Done
StreamSendError ==
    /\ stPc = "error"
    /\ stCh' = Append(stCh, ErrorChunk)
    /\ stPc' = "return"
    /\ UNCHANGED <<stReq, stWords, stPos, stClosed, stCtxDone, stOk>>
    /\ UnchangedBut("stream")

\* the goroutine returns: defer close(ch)
StreamClose ==
    /\ stPc = "return"
    /\ stPc' = "closed"
    /\ stClosed' = TRUE
    /\ UNCHANGED <<stReq, stWords, stPos, stCh, stCtxDone, stOk>>
    /\ UnchangedBut("stream")

StreamNext ==
    \/ FallbackStream
    \/ MockStream
    \/ AnthropicStream
    \/ StreamComplete
    \/ StreamCancel
    \/ StreamSendWord
    \/ StreamCtxDone
    \/ StreamSendDone
    \/ StreamSendError
    \/ StreamClose

StreamSpec == StreamInit /\ [][StreamNext]_vars

\* C27: when the completion gave a response, the chunks on the channel are
\* the words of the response in order, each with done=false, then exactly
\* one terminal chunk with empty content and done=true; nothing follows the
\* terminal chunk, and a closed channel has got the terminal chunk.
C27_WordsThenOneTerminalChunk ==
    stOk =>
        LET n == Len(stCh)
            words == Fields(stReq.content)
        IN /\ \A k \in 1..n :
                IF stCh[k].Done
                THEN k = n /\ k = Len(words) + 1 /\ stCh[k].Content = <<>>
                ELSE k <= Len(words) /\ stCh[k].Content = words[k] \o <<" ">>
           /\ stClosed => (n > 0 /\ stCh[n].Done)


(***************************************************************************)
(* LazyProvider under concurrency: the background goroutine started by     *)
(* NewLazyProvider and goroutines that call Complete, Stream, IsAvailable   *)
(* and GetProviderStatus, with lp.mu.  What a probe of a provider finds is  *)
(* whatever the provider answers at that moment.                           *)
(***************************************************************************)
\* the calls a goroutine makes on the lazy provider; Stream takes the steps
\* of Complete up to the call of the provider
LazyOps == {"Complete", "IsAvailable", "GetProviderStatus", "WaitForBackgroundInit"}

\* lp.mu.RLock() can return
CanRLock(mu) == mu.writer = ""

\* lp.mu.Lock() can return
CanLock(mu) == mu.writer = "" /\ mu.readers = {}

\* an RUnlock that leaves the read lock held
RUnlockNot(mu, t) == mu

\* lp.mu.RUnlock() by goroutine t
RUnlock(mu, t) == [mu EXCEPT !.readers = @ \ {t}]

\* a double check that always finds nil
RecheckNever(active) == FALSE

\* the double check after lp.mu.Lock(): if lp.activeProvider != nil
Recheck(active) == active # 0

\* a background goroutine that returns without closing backgroundDone
CloseDoneNot(bg) == [bg EXCEPT !.pc = "done"]

\* defer close(lp.backgroundDone)
CloseDone(bg) == [bg EXCEPT !.pc = "done", !.done = TRUE, !.closes = @ + 1]

\* a probing loop that stops at the first provider
MoreProvidersNever(i, n) == FALSE

\* the for loop over lp.providers goes on after provider i of n
MoreProviders(i, n) == i < n

\* the results slice as booleans
Found(results) == [k \in DOMAIN results |-> results[k] = "yes"]

\* the caller after ensureActiveProvider returned ok: IsAvailable returns it,
\* Complete and Stream fail on false and read the active provider on true
AfterEnsure(c, ok) ==
    IF c.op = "IsAvailable"
    THEN [IdleCaller EXCEPT !.ret = IF ok THEN "true" ELSE "false"]
    ELSE IF ok THEN [c EXCEPT !.pc = "serve_rlock", !.i = 0, !.tried = {}]
    ELSE [IdleCaller EXCEPT !.ret = "no LLM providers available"]

ConcurrentInit ==
    /\ lpProviders = -1
    /\ lpMu = Unlocked
    /\ lpActive = 0
    /\ lpBg = NoBackground
    /\ lpCallers = [t \in LazyCallers |-> IdleCaller]
    /\ lpCalls = 0
    /\ ParkedBut("concurrent")

\* NewLazyProvider: the provider list, and go initializeProvidersInBackground
NewLazyProvider(n) ==
    /\ lpProviders = -1
    /\ lpProviders' = n
    /\ lpBg' = [lpBg EXCEPT !.pc = "init_lock", !.spawned = @ + 1,
                            !.results = [k \in 1..n |-> "pending"]]
    /\ UNCHANGED <<lpMu, lpActive, lpCallers, lpCalls>>
    /\ UnchangedBut("concurrent")

\* a goroutine calls Complete (or Stream), IsAvailable, GetProviderStatus or
\* WaitForBackgroundInit
LazyBegin(t, op) ==
    /\ lpProviders >= 0
    /\ lpCallers[t].pc = "idle"
    /\ lpCalls < MaxRequests
    /\ lpCalls' = lpCalls + 1
    /\ lpCallers' = [lpCallers EXCEPT ![t] =
           [pc |-> CASE op = "IsAvailable" -> "avail_rlock"
                     [] op = "GetProviderStatus" -> "status_rlock"
                     [] op = "WaitForBackgroundInit" -> "wait"
                     [] OTHER -> "ensure_rlock",
            op |-> op, i |-> 0, tried |-> {}, ret |-> ""]]
    /\ UNCHANGED <<lpProviders, lpMu, lpActive, lpBg>>
    /\ UnchangedBut("concurrent")

\* lp.mu.RLock() of IsAvailable, ensureActiveProvider, Complete, Stream and
\* GetProviderStatus
LazyRLock(t) ==
    /\ lpCallers[t].pc \in {"avail_rlock", "ensure_rlock", "serve_rlock", "status_rlock"}
    /\ CanRLock(lpMu)
    /\ lpMu' = [lpMu EXCEPT !.readers = @ \cup {t}]
    /\ lpCallers' = [lpCallers EXCEPT ![t].pc =
           CASE @ = "avail_rlock" -> "avail_read"
             [] @ = "ensure_rlock" -> "ensure_read"
             [] @ = "serve_rlock" -> "serve_read"
             [] OTHER -> "status_read"]
    /\ UNCHANGED <<lpProviders, lpActive, lpBg, lpCalls>>
    /\ UnchangedBut("concurrent")

\* GetProviderStatus under the read lock, and its deferred RUnlock
StatusRead(t) ==
    /\ lpCallers[t].pc = "status_read"
    /\ lpMu' = RUnlock(lpMu, t)
    /\ lpCallers' = [lpCallers EXCEPT ![t] = [IdleCaller EXCEPT !.ret = "status"]]
    /\ UNCHANGED <<lpProviders, lpActive, lpBg, lpCalls>>
    /\ UnchangedBut("concurrent")

\* IsAvailable under the read lock: the active provider's IsAvailable, or on
\* to ensureActiveProvider
AvailRead(t) ==
    /\ lpCallers[t].pc = "avail_read"
    /\ lpMu' = RUnlock(lpMu, t)
    /\ IF lpActive # 0
       THEN \E av \in {"true", "false"} :
              lpCallers' = [lpCallers EXCEPT ![t] = [IdleCaller EXCEPT !.ret = av]]
       ELSE lpCallers' = [lpCallers EXCEPT ![t].pc = "ensure_rlock"]
    /\ UNCHANGED <<lpProviders, lpActive, lpBg, lpCalls>>
    /\ UnchangedBut("concurrent")

\* ensureActiveProvider under the read lock: return true, or on to Lock
EnsureRead(t) ==
    /\ lpCallers[t].pc = "ensure_read"
    /\ lpMu' = RUnlock(lpMu, t)
    /\ lpCallers' = [lpCallers EXCEPT ![t] =
           IF lpActive # 0 THEN AfterEnsure(@, TRUE) ELSE [@ EXCEPT !.pc = "ensure_lock"]]
    /\ UNCHANGED <<lpProviders, lpActive, lpBg, lpCalls>>
    /\ UnchangedBut("concurrent")

\* lp.mu.Lock() of ensureActiveProvider
EnsureLock(t) ==
    /\ lpCallers[t].pc = "ensure_lock"
    /\ CanLock(lpMu)
    /\ lpMu' = [lpMu EXCEPT !.writer = t]
    /\ lpCallers' = [lpCallers EXCEPT ![t].pc = "recheck"]
    /\ UNCHANGED <<lpProviders, lpActive, lpBg, lpCalls>>
    /\ UnchangedBut("concurrent")

\* the double check under the write lock, and the start of the loop
EnsureRecheck(t) ==
    /\ lpCallers[t].pc = "recheck"
    /\ IF Recheck(lpActive)
       THEN /\ lpMu' = Unlocked
            /\ lpCallers' = [lpCallers EXCEPT ![t] = AfterEnsure(@, TRUE)]
       ELSE IF lpProviders = 0
       THEN /\ lpMu' = Unlocked
            /\ lpCallers' = [lpCallers EXCEPT ![t] = AfterEnsure(@, FALSE)]
       ELSE /\ lpMu' = lpMu
            /\ lpCallers' = [lpCallers EXCEPT ![t].pc = "probe", ![t].i = 1]
    /\ UNCHANGED <<lpProviders, lpActive, lpBg, lpCalls>>
    /\ UnchangedBut("concurrent")

\* one iteration of the loop over lp.providers, under the write lock
EnsureProbe(t) ==
    /\ lpCallers[t].pc = "probe"
    /\ LET c == lpCallers[t] IN
       \E available \in BOOLEAN :
          IF available
          THEN /\ lpActive' = c.i
               /\ lpMu' = Unlocked
               /\ lpCallers' = [lpCallers EXCEPT ![t] = AfterEnsure(c, TRUE)]
          ELSE IF MoreProviders(c.i, lpProviders)
          THEN /\ lpCallers' = [lpCallers EXCEPT ![t] =
                      [c EXCEPT !.i = @ + 1, !.tried = @ \cup {c.i}]]
               /\ UNCHANGED <<lpActive, lpMu>>
          ELSE /\ lpMu' = Unlocked
               /\ lpCallers' = [lpCallers EXCEPT ![t] = AfterEnsure(c, FALSE)]
               /\ UNCHANGED lpActive
    /\ UNCHANGED <<lpProviders, lpBg, lpCalls>>
    /\ UnchangedBut("concurrent")

\* Complete and Stream read lp.activeProvider under the read lock
ServeRead(t) ==
    /\ lpCallers[t].pc = "serve_read"
    /\ lpMu' = RUnlock(lpMu, t)
    /\ lpCallers' = [lpCallers EXCEPT ![t].pc = "serve", ![t].i = lpActive]
    /\ UNCHANGED <<lpProviders, lpActive, lpBg, lpCalls>>
    /\ UnchangedBut("concurrent")

\* provider.Complete or provider.Stream returns
Serve(t) ==
    /\ lpCallers[t].pc = "serve"
    /\ \E r \in {"ok", "error"} :
          lpCallers' = [lpCallers EXCEPT ![t] = [IdleCaller EXCEPT !.ret = r]]
    /\ UNCHANGED <<lpProviders, lpMu, lpActive, lpBg, lpCalls>>
    /\ UnchangedBut("concurrent")

\* initializeProvidersInBackground: lp.mu.Lock() before isInitializing = true
BgInitLock ==
    /\ lpBg.pc = "init_lock"
    /\ CanLock(lpMu)
    /\ lpMu' = [lpMu EXCEPT !.writer = "bg"]
    /\ lpBg' = [lpBg EXCEPT !.pc = "init_set"]
    /\ UNCHANGED <<lpProviders, lpActive, lpCallers, lpCalls>>
    /\ UnchangedBut("concurrent")

\* lp.isInitializing = true; lp.mu.Unlock(); the probing goroutines start
BgInitSet ==
    /\ lpBg.pc = "init_set"
    /\ lpMu' = Unlocked
    /\ lpBg' = [lpBg EXCEPT !.pc = "probing", !.isInitializing = TRUE]
    /\ UNCHANGED <<lpProviders, lpActive, lpCallers, lpCalls>>
    /\ UnchangedBut("concurrent")

\* the goroutine of provider k: results[idx] = p.IsAvailable(testCtx)
BgProbe(k) ==
    /\ lpBg.pc = "probing"
    /\ lpBg.results[k] = "pending"
    /\ \E r \in {"yes", "no"} : lpBg' = [lpBg EXCEPT !.results[k] = r]
    /\ UNCHANGED <<lpProviders, lpMu, lpActive, lpCallers, lpCalls>>
    /\ UnchangedBut("concurrent")

\* wg.Wait() returns and lp.mu.Lock()
BgAssignLock ==
    /\ lpBg.pc = "probing"
    /\ \A k \in DOMAIN lpBg.results : lpBg.results[k] # "pending"
    /\ CanLock(lpMu)
    /\ lpMu' = [lpMu EXCEPT !.writer = "bg"]
    /\ lpBg' = [lpBg EXCEPT !.pc = "assign"]
    /\ UNCHANGED <<lpProviders, lpActive, lpCallers, lpCalls>>
    /\ UnchangedBut("concurrent")

\* the first available provider becomes active if none is; isInitializing
\* = false; lp.mu.Unlock()
BgAssign ==
    /\ lpBg.pc = "assign"
    /\ lpActive' = KeepActive(lpActive, FirstAvailable(Found(lpBg.results)))
    /\ lpMu' = Unlocked
    /\ lpBg' = [lpBg EXCEPT !.pc = "close", !.isInitializing = FALSE]
    /\ UNCHANGED <<lpProviders, lpCallers, lpCalls>>
    /\ UnchangedBut("concurrent")

\* the goroutine returns: the deferred cancel and close(lp.backgroundDone)
BgClose ==
    /\ lpBg.pc = "close"
    /\ lpBg' = CloseDone(lpBg)
    /\ UNCHANGED <<lpProviders, lpMu, lpActive, lpCallers, lpCalls>>
    /\ UnchangedBut("concurrent")

\* WaitForBackgroundInit: true once backgroundDone is closed, false when the
\* timeout passes before
WaitForBackgroundInit(t) ==
    /\ lpCallers[t].pc = "wait"
    /\ lpCallers' = [lpCallers EXCEPT ![t] =
           [IdleCaller EXCEPT !.ret = IF lpBg.done THEN "true" ELSE "false"]]
    /\ UNCHANGED <<lpProviders, lpMu, lpActive, lpBg, lpCalls>>
    /\ UnchangedBut("concurrent")

\* a step of the background goroutine
BgStep ==
    \/ BgInitLock
    \/ BgInitSet
    \/ \E k \in 1..MaxProviders : k \in DOMAIN lpBg.results /\ BgProbe(k)
    \/ BgAssignLock
    \/ BgAssign
    \/ BgClose

\* a step of a call goroutine t is in
CallerStep(t) ==
    \/ LazyRLock(t)
    \/ StatusRead(t)
    \/ AvailRead(t)
    \/ EnsureRead(t)
    \/ EnsureLock(t)
    \/ EnsureRecheck(t)
    \/ EnsureProbe(t)
    \/ ServeRead(t)
    \/ Serve(t)
    \/ WaitForBackgroundInit(t)

ConcurrentNext ==
    \/ \E n \in 0..MaxProviders : NewLazyProvider(n)
    \/ \E t \in LazyCallers, op \in LazyOps : LazyBegin(t, op)
    \/ \E t \in LazyCallers : CallerStep(t)
    \/ BgStep

ConcurrentSpec == ConcurrentInit /\ [][ConcurrentNext]_vars

\* the goroutines are scheduled: a goroutine that can take a step takes one
ConcurrentFairSpec ==
    /\ ConcurrentSpec
    /\ WF_vars(BgStep)
    /\ \A t \in LazyCallers : WF_vars(CallerStep(t))


\* C33 (as stated): under every interleaving of the background probe and the
\* synchronous probing, no provider is made active while a provider earlier
\* in the list has been found available.
C33_NoneActiveBehindAvailable ==
    [][lpActive' # lpActive =>
          \A k \in 1..(lpActive' - 1) : lpBg.results[k] # "yes"]_vars

\* C33 (amended): the provider made active is the first in list order that
\* the round of probes that selects it found available, and it is made
\* active only while none is: the synchronous loop, under the write lock,
\* activates provider i after it found the providers before i unavailable in
\* that call; the background goroutine activates the first provider its
\* results hold as available.
C33_FirstAvailableOfItsRound ==
    [][lpActive' # lpActive =>
          /\ lpActive = 0
          /\ lpActive' \in 1..lpProviders
          /\ lpMu.writer # ""
          /\ IF lpMu.writer = "bg"
             THEN /\ lpBg.results[lpActive'] = "yes"
                  /\ \A k \in 1..(lpActive' - 1) : lpBg.results[k] = "no"
             ELSE /\ lpCallers[lpMu.writer].pc = "probe"
                  /\ lpCallers[lpMu.writer].i = lpActive'
                  /\ lpCallers[lpMu.writer].tried = 1..(lpActive' - 1)]_vars

\* the background goroutine found the first provider unavailable and the
\* second available, made it active and finished, and a call was served
C33_Witness ==
    /\ lpBg.pc = "done"
    /\ lpBg.results = <<"no", "yes">>
    /\ lpActive = 2
    /\ \E t \in LazyCallers : lpCallers[t].ret = "ok"


\* C34: double-checked locking. A caller probes only while no provider is
\* active and while it holds the write lock: a caller that takes the write
\* lock after another caller (or the background goroutine) has set the active
\* provider leaves at the re-check and never enters the probing loop.
C34_NoProbeOnceActive ==
    \A t \in LazyCallers :
        lpCallers[t].pc = "probe" => lpActive = 0 /\ lpMu.writer = t

\* a caller holds the write lock at the re-check after the other caller has
\* set the active provider, the background goroutine not having started
C34_Witness ==
    /\ lpBg.pc = "init_lock"
    /\ lpActive # 0
    /\ \E t \in LazyCallers :
          /\ lpCallers[t].pc = "recheck"
          /\ lpMu.writer = t
          /\ \E u \in LazyCallers \ {t} : lpCallers[u].pc \in {"serve_rlock", "serve_read", "serve"}


\* C35: the background probe is spawned once, at construction; it terminates
\* whatever the providers answer, also with an empty provider list; it closes
\* backgroundDone once and the channel stays closed; from then on
\* WaitForBackgroundInit returns true. (The provider set, once constructed,
\* stays: that its goroutine has again and again ended says that it ends.)
C35_BackgroundProbeCompletesOnce ==
    /\ [](lpBg.spawned <= 1 /\ lpBg.closes <= 1)
    /\ [](lpBg.spawned = 1 <=> lpProviders >= 0)
    /\ []<>(lpProviders >= 0 => lpBg.done /\ lpBg.pc = "done" /\ lpBg.closes = 1)
    /\ [][lpBg.done => lpBg'.done]_vars
    /\ [][\A t \in LazyCallers :
             lpBg.done /\ lpCallers[t].pc = "wait" /\ lpCallers'[t].pc = "idle"
                 => lpCallers'[t].ret = "true"]_vars

\* every provider was found unavailable, the background goroutine has ended
\* and a WaitForBackgroundInit has returned true
C35_Witness ==
    /\ lpProviders > 0
    /\ \A k \in 1..lpProviders : lpBg.results[k] = "no"
    /\ lpBg.done
    /\ lpActive = 0
    /\ \E t \in LazyCallers : lpCallers[t].ret = "true"


\* C37: every call returns. Whatever the interleaving of the background
\* goroutine, of Complete, Stream and IsAvailable callers, of status readers
\* and of waiters, a call that has begun returns to its caller, and when it
\* has returned it holds lp.mu neither for reading nor for writing. (A caller
\* that is again and again idle has returned from every call it began.)
C37_EveryCallReturns ==
    /\ \A t \in LazyCallers : []<>(lpCallers[t].pc = "idle")
    /\ [](\A t \in LazyCallers :
             lpCallers[t].pc = "idle" => lpMu.writer # t /\ t \notin lpMu.readers)
    /\ [](lpBg.pc = "done" => lpMu.writer # "bg")

\* both callers are inside ensureActiveProvider while the background
\* goroutine waits for the write lock that one of the callers holds
C37_Witness ==
    /\ lpBg.pc = "init_lock"
    /\ \E t \in LazyCallers :
          /\ lpMu.writer = t
          /\ lpCallers[t].pc = "probe"
          /\ \E u \in LazyCallers \ {t} : lpCallers[u].pc = "ensure_lock"


\* C38: a request that finds every provider unavailable fails, after it has
\* tried every provider of the list, and leaves no provider active; nothing
\* records the failure: the next caller at the double check, no provider
\* being active, starts the probing loop at the first provider again, and a
\* Complete whose probe finds a provider available makes it active and goes
\* on to be served by it.
C38_FailureNotLatched ==
    [][\A t \in LazyCallers :
          /\ (lpCallers[t].pc # "idle" /\ lpCallers'[t].pc = "idle"
                 /\ lpCallers'[t].ret = "no LLM providers available")
              => /\ lpActive = 0 /\ lpActive' = 0
                 /\ lpMu' = Unlocked
                 /\ 1..lpProviders \subseteq lpCallers[t].tried \cup {lpCallers[t].i}
          /\ (lpCallers[t].pc = "recheck" /\ lpCallers'[t].pc # "recheck"
                 /\ lpActive = 0 /\ lpProviders > 0)
              => lpCallers'[t].pc = "probe" /\ lpCallers'[t].i = 1
          /\ (lpCallers[t].pc = "probe" /\ lpCallers[t].op = "Complete"
                 /\ lpActive' # lpActive)
              => lpActive' = lpCallers[t].i /\ lpCallers'[t].pc = "serve_rlock"]_vars

\* a Complete has failed for want of an available provider and, the
\* background goroutine not having selected one, another has been served
C38_Witness ==
    /\ lpBg.pc = "init_lock"
    /\ lpActive # 0
    /\ \E t \in LazyCallers :
          /\ lpCallers[t].ret = "no LLM providers available"
          /\ \E u \in LazyCallers \ {t} : lpCallers[u].ret = "ok"


(***************************************************************************)
(* FileSearchTool.Execute: the check of the path parameter.  A path is a   *)
(* sequence of components and a component a sequence of pieces of text, so *)
(* that strings.HasPrefix is computed on the text of the path, piece by    *)
(* piece, as the code computes it character by character.                  *)
(***************************************************************************)
Dot == <<".">>

DotDot == <<"..">>

Kbase == <<"kbase">>

\* a directory next to kbase whose name begins with kbase: kbase2
KbaseSibling == <<"kbase", "2">>

PathComponents == {Dot, DotDot, Kbase, KbaseSibling, <<"api_docs">>, <<"tmp">>}

\* the working directory of the process: /work
Cwd == << <<"work">> >>

RECURSIVE PathsOfLength(_)
PathsOfLength(n) ==
    IF n = 0 THEN {<<>>}
    ELSE {Append(p, c) : p \in PathsOfLength(n - 1), c \in PathComponents}

\* the values of the path parameter: absolute and relative paths
SearchPaths ==
    {[abs |-> a, comps |-> p] :
        a \in BOOLEAN, p \in UNION {PathsOfLength(n) : n \in 0..MaxPath}}

RECURSIVE CleanFrom(_, _, _, _)
\* filepath.Clean, component i onwards: . is dropped, .. removes the
\* component before it, stays at the root, and is kept at the start of a
\* relative path
CleanFrom(abs, comps, i, acc) ==
    IF i > Len(comps) THEN acc
    ELSE LET c == comps[i] IN
         CleanFrom(abs, comps, i + 1,
             IF c = Dot THEN acc
             ELSE IF c = DotDot
             THEN IF acc # <<>> /\ acc[Len(acc)] # DotDot
                  THEN SubSeq(acc, 1, Len(acc) - 1)
                  ELSE IF abs THEN acc ELSE Append(acc, c)
             ELSE Append(acc, c))

\* filepath.Clean
Clean(p) == [abs |-> p.abs, comps |-> CleanFrom(p.abs, p.comps, 1, <<>>)]

\* filepath.Abs: a relative path is joined to the working directory
Abs(p) ==
    IF p.abs THEN Clean(p)
    ELSE Clean([abs |-> TRUE, comps |-> Cwd \o p.comps])

RECURSIVE PathText(_)
\* the text of an absolute path: a separator before each component
PathText(comps) ==
    IF comps = <<>> THEN <<>>
    ELSE <<"/">> \o comps[1] \o PathText(SubSeq(comps, 2, Len(comps)))

\* the string of an absolute path (the root is "/")
PathString(p) == IF p.comps = <<>> THEN <<"/">> ELSE PathText(p.comps)

\* strings.HasPrefix
HasPrefix(s, prefix) ==
    Len(s) >= Len(prefix) /\ SubSeq(s, 1, Len(prefix)) = prefix

\* filepath.Abs("./kbase")
kbPath == Abs([abs |-> FALSE, comps |-> <<Dot, Kbase>>])

\* the location is the knowledge-base directory or lies below it
WithinKbase(p) ==
    /\ Len(p.comps) >= Len(kbPath.comps)
    /\ SubSeq(p.comps, 1, Len(kbPath.comps)) = kbPath.comps

\* FileSearchTool.Execute up to the search: err is the error return ("" is
\* nil), base the directory the pattern is searched from
FileSearchExecute(params) ==
    IF ~params.pattern
    THEN [returned |-> TRUE, success |-> FALSE, error |-> "pattern parameter is required",
          err |-> "", searched |-> FALSE, base |-> <<>>]
    ELSE IF params.hasPath /\ ~HasPrefix(PathString(Abs(Clean(params.path))), PathString(kbPath))
    THEN [returned |-> TRUE, success |-> FALSE,
          error |-> "Access denied: file_search is restricted to kbase directory only",
          err |-> "", searched |-> FALSE, base |-> <<>>]
    ELSE [returned |-> TRUE, success |-> TRUE, error |-> "", err |-> "",
          searched |-> TRUE,
          base |-> IF params.hasPath THEN Abs(Clean(params.path)).comps ELSE kbPath.comps]

\* a file_search call with or without a pattern and a path
FileSearchInit ==
    /\ fsParams \in {[pattern |-> pt, hasPath |-> hp, path |-> p] :
                        pt \in BOOLEAN, hp \in BOOLEAN, p \in SearchPaths}
    /\ ~fsParams.hasPath => fsParams.path = NoSearchParams.path
    /\ fsResult = NoSearchResult
    /\ ParkedBut("search")

FileSearch ==
    /\ ~fsResult.returned
    /\ fsResult' = FileSearchExecute(fsParams)
    /\ UNCHANGED fsParams
    /\ UnchangedBut("search")

FileSearchNext == FileSearch

FileSearchSpec == FileSearchInit /\ [][FileSearchNext]_vars

\* C40: file_search never searches outside the knowledge-base directory: a
\* call with a pattern and a path that resolves to a location outside kbase
\* (an absolute path, a relative path that leaves kbase, a sibling
\* directory) returns success = false, an error saying "Access denied" and
\* a nil error, and nothing is searched.
C40_PathOutsideKbaseDenied ==
    (/\ fsResult.returned
     /\ fsParams.pattern
     /\ fsParams.hasPath
     /\ ~WithinKbase(Abs(fsParams.path))) =>
        /\ ~fsResult.success
        /\ fsResult.error = "Access denied: file_search is restricted to kbase directory only"
        /\ fsResult.err = ""
        /\ ~fsResult.searched

====
